---- MODULE Spec2Model ----
(***************************************************************************)
(* Task lifecycle of Auto-Claude's renderer: the zustand task store        *)
(* (auto-claude-ui/src/renderer/stores/task-store.ts), the asynchronous    *)
(* store functions that talk to the main process over IPC, and the status  *)
(* derivation that updateTaskFromPlan performs on every plan update.       *)
(*                                                                         *)
(* Task fields that carry no control flow (title, description, logs,       *)
(* createdAt, updatedAt, chunk description/files/verification) are left    *)
(* out of the records; every field a condition reads or a derivation       *)
(* decides is kept.                                                        *)
(***************************************************************************)
EXTENDS Integers, Sequences, FiniteSets, TLC

(***************************************************************************)
(* Bounds of the model                                                     *)
(***************************************************************************)
\* largest number of chunks a reported plan carries, over all its phases
MaxChunks == 3
\* largest number of phases of a reported plan
MaxPhases == 1
\* largest number of store calls awaiting their IPC response at one time
MaxInFlight == 1
\* largest number of chunks of a plan reported while IPC calls are in flight
MaxEventChunks == 1
MaxReports == 1
MaxTotalChunks == 5

(***************************************************************************)
(* Value domains (shared/types: TaskStatus, ReviewReason, ChunkStatus)     *)
(***************************************************************************)
\* the absent value of an optional field (JavaScript undefined)
Undefined == "undefined"

TaskStatuses == {"backlog", "in_progress", "ai_review", "human_review", "done"}

ReviewReasons == {"completed", "errors", "qa_issues"}

ChunkStatuses == {"pending", "in_progress", "completed", "failed"}

SourceTypes == {"manual", "ideation"}

\* the one task of the store, and an id that matches no task
TheTaskId == "t1"
TheSpecId == "s1"
NoSuchId == "zz"
TaskIdInputs == {TheTaskId, TheSpecId, NoSuchId}

(***************************************************************************)
(* Plans reported by the worker: ImplementationPlan {phases: [{chunks:     *)
(* [{id, status}]}]}, here the sequence of its phases, each the sequence   *)
(* of its chunks.  Chunk ids are numbered in plan order.                   *)
(***************************************************************************)
RECURSIVE SumTo(_, _)
SumTo(f, n) == IF n = 0 THEN 0 ELSE f[n] + SumTo(f, n - 1)

\* the ways to spread chunks over phases: the chunk count of every phase
PhaseSizes ==
  { sz \in UNION { [1..p -> 0..MaxChunks] : p \in 0..MaxPhases } :
      SumTo(sz, Len(sz)) <= MaxChunks }

\* the phases of the plan that has sizes sz and gives chunk k status st[k]
PhasesOf(sz, st) ==
  [ p \in 1..Len(sz) |->
      [ i \in 1..sz[p] |->
          [ id |-> SumTo(sz, p - 1) + i, status |-> st[SumTo(sz, p - 1) + i] ] ] ]

PlanInputs ==
  UNION { { [ phases |-> PhasesOf(sz, st) ] :
              st \in [1..SumTo(sz, Len(sz)) -> ChunkStatuses] } :
          sz \in PhaseSizes }

\* the plan no call has reported
NoPlan == [ phases |-> << >> ]

(***************************************************************************)
(* State                                                                   *)
(***************************************************************************)
VARIABLES
  tasks,      \* useTaskStore state.tasks: the sequence of Task records
  lastOp,     \* the store operation that last matched a task, with its plan
  pending,    \* the store functions awaiting their IPC response, oldest first
  running,    \* whether a live worker process is associated with the task
  calls,      \* the outcomes of the last recoverStuckTask calls with the same
              \* options that returned one right after the other (at most two)
  panel,      \* the useState values of the TaskDetailPanel showing the task
  requests,   \* the panel's own IPC calls awaiting their response
  workspace,  \* the state of the task's isolated workspace in the main process
  events,     \* the status events the main process has sent, oldest first
  seen,       \* the last step of the panel or of the store, as the properties
              \* need to look back at it
  logs,       \* the panel's phase-log subscription, the logs it holds and the
              \* main process's log watchers
  selectedTaskId,  \* useTaskStore state.selectedTaskId
  github      \* the main process's PR review registry and the labels of a PR

vars ==
  << tasks, lastOp, pending, running, calls, panel, requests, workspace, events, seen,
     logs, selectedTaskId, github >>

panelVars == << panel, requests, workspace, events, seen >>

storeVars == << tasks, lastOp >>

ipcVars == << pending, running, calls >>

otherVars == << logs, selectedTaskId, github >>

\* a store operation recorded by its name alone
Op(name) ==
  [ op |-> name, taskId |-> "", plan |-> NoPlan, again |-> FALSE, afterFailed |-> FALSE ]

(***************************************************************************)
(* TaskDetailPanel: the component's state and what it renders              *)
(***************************************************************************)
Null == "null"

\* the useState initial values of a panel that was just mounted
MountedPanel ==
  [ open |-> TRUE,
    isStuck |-> FALSE, isRecovering |-> FALSE, hasCheckedRunning |-> FALSE,
    worktreeStatus |-> Null, isLoadingWorktree |-> FALSE,
    isMerging |-> FALSE, isDiscarding |-> FALSE, showDiscardDialog |-> FALSE,
    workspaceError |-> Null, stageOnly |-> FALSE,
    feedback |-> << >>, isSubmitting |-> FALSE ]

\* no panel is shown: the parent has not mounted one, or onClose() was called
NoPanel == [ MountedPanel EXCEPT !.open = FALSE ]

\* a step recorded by its name alone
Step(name) == [ op |-> name ]

\* (['planning', 'coding', 'validation'] as TaskLogPhase[])
LogPhases == << "planning", "coding", "validation" >>

LogPhaseNames == { LogPhases[i] : i \in 1..Len(LogPhases) }

\* the panel's phase-log state and the log watchers when no panel is mounted
NoLogs ==
  [ mounted |-> FALSE, project |-> Null, specId |-> Null,
    subscription |-> {}, listeners |-> << >>, watchers |-> {}, loads |-> {},
    phaseLogs |-> << >>, isLoadingLogs |-> FALSE, expandedPhases |-> {},
    stream |-> << >>, answer |-> << >>, last |-> Step("init") ]

\* no PR review runs or is registered, the PR carries no label and no label
\* sync is under way
NoGithub ==
  [ runningReviews |-> {}, reviews |-> {}, nextPid |-> 1,
    labels |-> {}, sync |-> << >>, last |-> Step("init") ]

InitOther ==
  /\ logs = NoLogs
  /\ selectedTaskId = Null
  /\ github = NoGithub

InitPanel ==
  /\ panel = NoPanel
  /\ requests = {}
  /\ workspace = "absent"
  /\ events = << >>
  /\ seen = Step("init")
  /\ InitOther

\* const isRunning = task.status === 'in_progress'
IsRunning(t) == t.status = "in_progress"

\* const needsReview = task.status === 'human_review'
NeedsReview(t) == t.status = "human_review"

\* the "Build Ready for Review" block with the merge and discard buttons
WorkspaceShown(t, p) ==
  p.open /\ NeedsReview(t) /\ ~p.isLoadingWorktree /\ p.worktreeStatus = "exists"

\* the merge button is rendered and not disabled
MergeEnabled(t, p) == WorkspaceShown(t, p) /\ ~(p.isMerging \/ p.isDiscarding)

\* the discard button, which opens the confirmation dialog, is rendered and
\* not disabled
DiscardEnabled(t, p) == WorkspaceShown(t, p) /\ ~(p.isMerging \/ p.isDiscarding)

\* the dialog's "Discard Changes" action is rendered and not disabled
ConfirmDiscardEnabled(p) == p.open /\ p.showDiscardDialog /\ ~p.isDiscarding

\* the dialog's Cancel is rendered and not disabled
CancelDiscardEnabled(p) == p.open /\ p.showDiscardDialog /\ ~p.isDiscarding

(***************************************************************************)
(* Pure helpers of the store                                               *)
(***************************************************************************)
\* t.id === taskId || t.specId === taskId
Matches(t, taskId) == t.id = taskId \/ t.specId = taskId

\* t.metadata?.sourceType
MetaSourceType(t) == IF t.hasMetadata THEN t.sourceType ELSE Undefined

\* plan.phases.flatMap(phase => phase.chunks.map(chunk => ({id, status, ...})))
RECURSIVE FlatMapChunks(_)
FlatMapChunks(phases) ==
  IF phases = << >> THEN << >>
  ELSE [ i \in 1..Len(Head(phases)) |->
           [ id |-> Head(phases)[i].id, status |-> Head(phases)[i].status ] ]
       \o FlatMapChunks(Tail(phases))

\* chunks.every(c => c.status === s)
EveryChunk(chunks, s) == \A i \in 1..Len(chunks) : chunks[i].status = s

\* chunks.some(c => c.status === s)
SomeChunk(chunks, s) == \E i \in 1..Len(chunks) : chunks[i].status = s

\* DeriveFromChunks without the manual shortcut: completed work always goes to
\* ai_review
DeriveFromChunks_NoManualSkip(t, chunks) ==
  LET allCompleted == Len(chunks) > 0 /\ EveryChunk(chunks, "completed")
  IN  IF allCompleted
        THEN [ status |-> "ai_review", reviewReason |-> Undefined ]
      ELSE IF SomeChunk(chunks, "failed")
        THEN [ status |-> "human_review", reviewReason |-> "errors" ]
      ELSE IF SomeChunk(chunks, "in_progress") \/ SomeChunk(chunks, "completed")
        THEN [ status |-> "in_progress", reviewReason |-> Undefined ]
      ELSE [ status |-> t.status, reviewReason |-> t.reviewReason ]

\* DeriveFromChunks that forgets to clear reviewReason on the way to ai_review
DeriveFromChunks_KeepsReason(t, chunks) ==
  LET allCompleted == Len(chunks) > 0 /\ EveryChunk(chunks, "completed")
  IN  IF allCompleted
        THEN IF MetaSourceType(t) = "manual"
               THEN [ status |-> "human_review", reviewReason |-> "completed" ]
               ELSE [ status |-> "ai_review", reviewReason |-> t.reviewReason ]
      ELSE IF SomeChunk(chunks, "failed")
        THEN [ status |-> "human_review", reviewReason |-> "errors" ]
      ELSE IF SomeChunk(chunks, "in_progress") \/ SomeChunk(chunks, "completed")
        THEN [ status |-> "in_progress", reviewReason |-> Undefined ]
      ELSE [ status |-> t.status, reviewReason |-> t.reviewReason ]

\* DeriveFromChunks that tests for work in progress before it tests for failures
DeriveFromChunks_ProgressFirst(t, chunks) ==
  LET allCompleted == Len(chunks) > 0 /\ EveryChunk(chunks, "completed")
  IN  IF allCompleted
        THEN IF MetaSourceType(t) = "manual"
               THEN [ status |-> "human_review", reviewReason |-> "completed" ]
               ELSE [ status |-> "ai_review", reviewReason |-> Undefined ]
      ELSE IF SomeChunk(chunks, "in_progress") \/ SomeChunk(chunks, "completed")
        THEN [ status |-> "in_progress", reviewReason |-> Undefined ]
      ELSE IF SomeChunk(chunks, "failed")
        THEN [ status |-> "human_review", reviewReason |-> "errors" ]
      ELSE [ status |-> t.status, reviewReason |-> t.reviewReason ]

\* DeriveFromChunks that takes only in_progress chunks as work in progress
DeriveFromChunks_InProgressOnly(t, chunks) ==
  LET allCompleted == Len(chunks) > 0 /\ EveryChunk(chunks, "completed")
  IN  IF allCompleted
        THEN IF MetaSourceType(t) = "manual"
               THEN [ status |-> "human_review", reviewReason |-> "completed" ]
               ELSE [ status |-> "ai_review", reviewReason |-> Undefined ]
      ELSE IF SomeChunk(chunks, "failed")
        THEN [ status |-> "human_review", reviewReason |-> "errors" ]
      ELSE IF SomeChunk(chunks, "in_progress")
        THEN [ status |-> "in_progress", reviewReason |-> Undefined ]
      ELSE [ status |-> t.status, reviewReason |-> t.reviewReason ]

\* DeriveFromChunks that sends a task without started chunks back to backlog
DeriveFromChunks_ResetsPending(t, chunks) ==
  LET allCompleted == Len(chunks) > 0 /\ EveryChunk(chunks, "completed")
  IN  IF allCompleted
        THEN IF MetaSourceType(t) = "manual"
               THEN [ status |-> "human_review", reviewReason |-> "completed" ]
               ELSE [ status |-> "ai_review", reviewReason |-> Undefined ]
      ELSE IF SomeChunk(chunks, "failed")
        THEN [ status |-> "human_review", reviewReason |-> "errors" ]
      ELSE IF SomeChunk(chunks, "in_progress") \/ SomeChunk(chunks, "completed")
        THEN [ status |-> "in_progress", reviewReason |-> Undefined ]
      ELSE [ status |-> "backlog", reviewReason |-> t.reviewReason ]

\* DeriveFromChunks that forgets to clear reviewReason on the way to in_progress
DeriveFromChunks_StaleReason(t, chunks) ==
  LET allCompleted == Len(chunks) > 0 /\ EveryChunk(chunks, "completed")
  IN  IF allCompleted
        THEN IF MetaSourceType(t) = "manual"
               THEN [ status |-> "human_review", reviewReason |-> "completed" ]
               ELSE [ status |-> "ai_review", reviewReason |-> Undefined ]
      ELSE IF SomeChunk(chunks, "failed")
        THEN [ status |-> "human_review", reviewReason |-> "errors" ]
      ELSE IF SomeChunk(chunks, "in_progress") \/ SomeChunk(chunks, "completed")
        THEN [ status |-> "in_progress", reviewReason |-> t.reviewReason ]
      ELSE [ status |-> t.status, reviewReason |-> t.reviewReason ]

\* the status and reviewReason updateTaskFromPlan computes for task t
DeriveFromChunks(t, chunks) ==
  LET allCompleted  == Len(chunks) > 0 /\ EveryChunk(chunks, "completed")
      anyInProgress == SomeChunk(chunks, "in_progress")
      anyFailed     == SomeChunk(chunks, "failed")
      anyCompleted  == SomeChunk(chunks, "completed")
  IN  IF allCompleted
        THEN IF MetaSourceType(t) = "manual"
               THEN [ status |-> "human_review", reviewReason |-> "completed" ]
               ELSE [ status |-> "ai_review", reviewReason |-> Undefined ]
      ELSE IF anyFailed
        THEN [ status |-> "human_review", reviewReason |-> "errors" ]
      ELSE IF anyInProgress \/ anyCompleted
        THEN [ status |-> "in_progress", reviewReason |-> Undefined ]
      ELSE [ status |-> t.status, reviewReason |-> t.reviewReason ]

\* PlanApplied that adds the plan's chunks to the chunks the task has
PlanApplied_Appends(t, plan) ==
  LET chunks  == t.chunks \o FlatMapChunks(plan.phases)
      derived == DeriveFromChunks(t, chunks)
  IN  [ t EXCEPT !.chunksDefined = TRUE,
                 !.chunks = chunks,
                 !.status = derived.status,
                 !.reviewReason = derived.reviewReason ]

\* PlanApplied that keeps the chunks the task already has
PlanApplied_KeepsCreated(t, plan) ==
  LET chunks  == IF t.chunks # << >> THEN t.chunks ELSE FlatMapChunks(plan.phases)
      derived == DeriveFromChunks(t, chunks)
  IN  [ t EXCEPT !.chunksDefined = TRUE,
                 !.chunks = chunks,
                 !.status = derived.status,
                 !.reviewReason = derived.reviewReason ]

\* the task updateTaskFromPlan returns for a matching task t
PlanApplied(t, plan) ==
  LET chunks  == FlatMapChunks(plan.phases)
      derived == DeriveFromChunks(t, chunks)
  IN  [ t EXCEPT !.chunksDefined = TRUE,
                 !.chunks = chunks,
                 !.status = derived.status,
                 !.reviewReason = derived.reviewReason ]

\* updateTaskFromPlan: state.tasks.map(t => matches ? {...t, chunks, ...} : t)
StoreUpdateTaskFromPlan(ts, taskId, plan) ==
  [ i \in 1..Len(ts) |->
      IF Matches(ts[i], taskId) THEN PlanApplied(ts[i], plan) ELSE ts[i] ]

\* updateTaskStatus that matches a task by its specId only
StoreUpdateTaskStatus_SpecIdOnly(ts, taskId, status) ==
  [ i \in 1..Len(ts) |->
      IF ts[i].specId = taskId THEN [ ts[i] EXCEPT !.status = status ] ELSE ts[i] ]

\* updateTaskStatus: state.tasks.map(t => matches ? {...t, status} : t)
StoreUpdateTaskStatus(ts, taskId, status) ==
  [ i \in 1..Len(ts) |->
      IF Matches(ts[i], taskId) THEN [ ts[i] EXCEPT !.status = status ] ELSE ts[i] ]

\* updateTask: state.tasks.map(t => matches ? {...t, ...updates} : t), with
\* updates a function from field names to values
StoreUpdateTask(ts, taskId, updates) ==
  [ i \in 1..Len(ts) |->
      IF Matches(ts[i], taskId)
        THEN [ f \in DOMAIN ts[i] |->
                 IF f \in DOMAIN updates THEN updates[f] ELSE ts[i][f] ]
        ELSE ts[i] ]

\* isIncompleteHumanReview that counts the chunks that are not completed
IsIncompleteHumanReview_CountsOpen(task) ==
  IF task.status # "human_review" THEN FALSE
  ELSE IF ~task.chunksDefined \/ Len(task.chunks) = 0 THEN TRUE
  ELSE LET openChunks ==
             Cardinality({ i \in 1..Len(task.chunks) : task.chunks[i].status # "completed" })
       IN  openChunks > 0

\* isIncompleteHumanReview(task)
IsIncompleteHumanReview(task) ==
  IF task.status # "human_review" THEN FALSE
  ELSE IF ~task.chunksDefined \/ Len(task.chunks) = 0 THEN TRUE
  ELSE LET completedChunks ==
             Cardinality({ i \in 1..Len(task.chunks) : task.chunks[i].status = "completed" })
       IN  completedChunks = 0

\* a task without executionProgress
NoProgress == [ undefined |-> TRUE ]

\* Partial<Task> values over the fields the model keeps
PartialTasks ==
  UNION { [ {"status"} -> TaskStatuses ],
          [ {"reviewReason"} -> ReviewReasons \cup {Undefined} ] }

(***************************************************************************)
(* Initial state: the store holds one task as the main process created it  *)
(***************************************************************************)
InitialTasks ==
  { [ id |-> TheTaskId, specId |-> TheSpecId,
      status |-> "backlog", reviewReason |-> Undefined,
      hasMetadata |-> hm, sourceType |-> st,
      chunksDefined |-> cd, chunks |-> << >>,
      executionProgress |-> NoProgress ] :
    hm \in BOOLEAN, st \in SourceTypes \cup {Undefined}, cd \in BOOLEAN }

InitStore ==
  /\ \E t \in { x \in InitialTasks : x.hasMetadata \/ x.sourceType = Undefined } :
       tasks = << t >>
  /\ lastOp = Op("init")

(***************************************************************************)
(* Synchronous store actions.  A call whose id matches no task leaves the  *)
(* store as it was (the map returns every task unchanged).                 *)
(***************************************************************************)
SomeMatch(taskId) == \E i \in 1..Len(tasks) : Matches(tasks[i], taskId)

Record(taskId, entry) == lastOp' = IF SomeMatch(taskId) THEN entry ELSE lastOp

\* a matching updateTaskFromPlan call: again tells that the call before it was
\* updateTaskFromPlan with the same plan, afterFailed that the call before it
\* was updateTaskFromPlan with a plan that had a failed chunk
PlanOp(taskId, plan) ==
  [ op |-> "updateTaskFromPlan", taskId |-> taskId, plan |-> plan,
    again |-> (lastOp.op = "updateTaskFromPlan" /\ lastOp.plan = plan),
    afterFailed |-> (lastOp.op = "updateTaskFromPlan" /\
                     \E p \in 1..Len(lastOp.plan.phases) :
                       \E i \in 1..Len(lastOp.plan.phases[p]) :
                         lastOp.plan.phases[p][i].status = "failed") ]

\* updateTaskFromPlan(taskId, plan) for a plan of the set plans
DoUpdateTaskFromPlan(plans) ==
  \E taskId \in TaskIdInputs, plan \in plans :
    /\ tasks' = StoreUpdateTaskFromPlan(tasks, taskId, plan)
    /\ Record(taskId, PlanOp(taskId, plan))

\* updateTaskStatus(taskId, status)
DoUpdateTaskStatus ==
  \E taskId \in TaskIdInputs, status \in TaskStatuses :
    /\ tasks' = StoreUpdateTaskStatus(tasks, taskId, status)
    /\ Record(taskId, Op("updateTaskStatus"))

\* updateTask(taskId, updates)
DoUpdateTask ==
  \E taskId \in TaskIdInputs, updates \in PartialTasks :
    /\ tasks' = StoreUpdateTask(tasks, taskId, updates)
    /\ Record(taskId, Op("updateTask"))

(***************************************************************************)
(* SpecPlan: the store under plan updates, from every status, reviewReason *)
(* and sourceType a task can have                                          *)
(***************************************************************************)
InitIpc ==
  /\ pending = << >>
  /\ running = FALSE
  /\ calls = << >>

InitPlan == InitStore /\ InitIpc /\ InitPanel

UpdateTaskFromPlan == DoUpdateTaskFromPlan(PlanInputs) /\ UNCHANGED << ipcVars, panelVars, otherVars >>

UpdateTaskStatus == DoUpdateTaskStatus /\ UNCHANGED << ipcVars, panelVars, otherVars >>

UpdateTask == DoUpdateTask /\ UNCHANGED << ipcVars, panelVars, otherVars >>

NextPlan == UpdateTaskFromPlan \/ UpdateTaskStatus \/ UpdateTask

SpecPlan == InitPlan /\ [][NextPlan]_vars

(***************************************************************************)
(* Properties of updateTaskFromPlan, checked under SpecPlan                *)
(***************************************************************************)
\* the last store call that matched a task was updateTaskFromPlan
PlanCall == lastOp.op = "updateTaskFromPlan"

\* the chunks of a plan, phase by phase
PlanChunkAt(plan) ==
  { << p, i >> \in (1..Len(plan.phases)) \X (1..MaxChunks + 1) : i <= Len(plan.phases[p]) }

PlanNonEmpty(plan) == PlanChunkAt(plan) # {}

PlanAll(plan, s) == \A x \in PlanChunkAt(plan) : plan.phases[x[1]][x[2]].status = s

PlanSome(plan, s) == \E x \in PlanChunkAt(plan) : plan.phases[x[1]][x[2]].status = s

PlanCount(plan, s) ==
  Cardinality({ x \in PlanChunkAt(plan) : plan.phases[x[1]][x[2]].status = s })

\* the tasks the last call was addressed to
Addressed(i) == Matches(tasks[i], lastOp.taskId)

\* C1: after updateTaskFromPlan on a manual task with a non-empty plan whose
\* chunks are all completed, the task is human_review with reason completed.
C1_ManualAllCompleted ==
  \A i \in 1..Len(tasks) :
    ( /\ PlanCall /\ Addressed(i)
      /\ MetaSourceType(tasks[i]) = "manual"
      /\ PlanNonEmpty(lastOp.plan) /\ PlanAll(lastOp.plan, "completed") )
    => tasks[i].status = "human_review" /\ tasks[i].reviewReason = "completed"

C1_Witness ==
  /\ PlanCall /\ MetaSourceType(tasks[1]) = "manual"
  /\ PlanCount(lastOp.plan, "completed") = 3 /\ PlanAll(lastOp.plan, "completed")
  /\ tasks[1].status = "human_review" /\ tasks[1].reviewReason = "completed"

\* C2: after updateTaskFromPlan on a task that is not manual (no metadata
\* included) with a non-empty plan whose chunks are all completed, the task is
\* ai_review and has no reviewReason.
C2_AutoAllCompleted ==
  \A i \in 1..Len(tasks) :
    ( /\ PlanCall /\ Addressed(i)
      /\ MetaSourceType(tasks[i]) # "manual"
      /\ PlanNonEmpty(lastOp.plan) /\ PlanAll(lastOp.plan, "completed") )
    => tasks[i].status = "ai_review" /\ tasks[i].reviewReason = Undefined

\* a task without metadata re-derived from all-completed chunks right after a
\* derivation from a plan with a failed chunk had set reviewReason errors
C2_Witness ==
  /\ PlanCall /\ ~tasks[1].hasMetadata /\ lastOp.afterFailed
  /\ PlanNonEmpty(lastOp.plan) /\ PlanAll(lastOp.plan, "completed")
  /\ tasks[1].status = "ai_review" /\ tasks[1].reviewReason = Undefined

\* C3: after updateTaskFromPlan with a plan that has a failed chunk, the task
\* is human_review with reason errors, whatever the other chunks and the
\* sourceType are.
C3_AnyFailed ==
  \A i \in 1..Len(tasks) :
    ( PlanCall /\ Addressed(i) /\ PlanSome(lastOp.plan, "failed") )
    => tasks[i].status = "human_review" /\ tasks[i].reviewReason = "errors"

\* the plan [completed, failed, in_progress]-like: one failed chunk next to an
\* in_progress and a completed one
C3_Witness ==
  /\ PlanCall
  /\ PlanCount(lastOp.plan, "failed") = 1
  /\ PlanSome(lastOp.plan, "in_progress") /\ PlanSome(lastOp.plan, "completed")
  /\ tasks[1].status = "human_review" /\ tasks[1].reviewReason = "errors"

\* C4: after updateTaskFromPlan with a plan that has no failed chunk, is not
\* entirely completed and has a chunk in_progress or completed, the task is
\* in_progress and has no reviewReason.
C4_WorkInProgress ==
  \A i \in 1..Len(tasks) :
    ( /\ PlanCall /\ Addressed(i)
      /\ ~PlanSome(lastOp.plan, "failed")
      /\ ~PlanAll(lastOp.plan, "completed")
      /\ (PlanSome(lastOp.plan, "in_progress") \/ PlanSome(lastOp.plan, "completed")) )
    => tasks[i].status = "in_progress" /\ tasks[i].reviewReason = Undefined

\* completed and pending chunks only, right after a derivation with a failure
C4_Witness ==
  /\ PlanCall /\ lastOp.afterFailed
  /\ PlanSome(lastOp.plan, "completed") /\ PlanSome(lastOp.plan, "pending")
  /\ ~PlanSome(lastOp.plan, "failed") /\ ~PlanSome(lastOp.plan, "in_progress")
  /\ tasks[1].status = "in_progress" /\ tasks[1].reviewReason = Undefined

\* C5: an updateTaskFromPlan call whose plan is empty or has only pending
\* chunks leaves the status of every task as it was before the call.
C5_PendingKeepsStatus ==
  [][ ( lastOp'.op = "updateTaskFromPlan" /\ PlanAll(lastOp'.plan, "pending") )
      => \A i \in 1..Len(tasks) : tasks'[i].status = tasks[i].status ]_vars

\* an all-pending plan applied to a task that some other call had put in done
C5_Witness ==
  /\ PlanCall /\ PlanNonEmpty(lastOp.plan) /\ PlanAll(lastOp.plan, "pending")
  /\ ~lastOp.again
  /\ tasks[1].status = "done" /\ Len(tasks[1].chunks) = PlanCount(lastOp.plan, "pending")

\* C7: updateTaskFromPlan applied again with the plan of the call before it
\* leaves chunks, status and reviewReason of every task as the first call left
\* them.
C7_Idempotent ==
  [][ ( /\ lastOp.op = "updateTaskFromPlan" /\ lastOp'.op = "updateTaskFromPlan"
        /\ lastOp'.plan = lastOp.plan )
      => \A i \in 1..Len(tasks) :
           /\ tasks'[i].chunks = tasks[i].chunks
           /\ tasks'[i].status = tasks[i].status
           /\ tasks'[i].reviewReason = tasks[i].reviewReason ]_vars

\* the same non-empty plan applied twice in a row
C7_Witness ==
  /\ PlanCall /\ lastOp.again /\ PlanNonEmpty(lastOp.plan)
  /\ tasks[1].chunks = FlatMapChunks(lastOp.plan.phases)

\* the later call of C8: the call before it was updateTaskFromPlan with a
\* failed chunk, this one has no failed chunk and shows a chunk that was failed
\* as pending or in_progress
RetriedStep ==
  /\ lastOp.op = "updateTaskFromPlan" /\ lastOp'.op = "updateTaskFromPlan"
  /\ ~PlanSome(lastOp'.plan, "failed")
  /\ \E x \in PlanChunkAt(lastOp.plan) \cap PlanChunkAt(lastOp'.plan) :
       /\ lastOp.plan.phases[x[1]][x[2]].status = "failed"
       /\ lastOp'.plan.phases[x[1]][x[2]].status \in {"pending", "in_progress"}

\* C8 as stated: after the re-derivation the task no longer has reason errors.
C8_NoCarriedReason ==
  [][ RetriedStep => \A i \in 1..Len(tasks) : tasks'[i].reviewReason # "errors" ]_vars

\* C8 as amended: the reason errors is dropped when the later plan has a chunk
\* in_progress or completed, and is carried over, with status human_review,
\* when every chunk of the later plan is pending.
C8_ReasonDroppedOnProgress ==
  [][ RetriedStep =>
        \A i \in 1..Len(tasks) :
          IF PlanSome(lastOp'.plan, "in_progress") \/ PlanSome(lastOp'.plan, "completed")
            THEN tasks'[i].reviewReason # "errors"
            ELSE /\ tasks'[i].status = tasks[i].status
                 /\ tasks'[i].reviewReason = tasks[i].reviewReason ]_vars

\* a re-derivation after a failure, from a plan with an in_progress chunk
C8_Witness ==
  /\ PlanCall /\ lastOp.afterFailed
  /\ ~PlanSome(lastOp.plan, "failed") /\ PlanSome(lastOp.plan, "in_progress")
  /\ tasks[1].reviewReason = Undefined

\* C9: isIncompleteHumanReview(task) is true exactly when the status is
\* human_review and the task has no chunks (missing or empty) or no completed
\* chunk.
C9_IncompleteIff ==
  \A i \in 1..Len(tasks) :
    IsIncompleteHumanReview(tasks[i]) <=>
      ( /\ tasks[i].status = "human_review"
        /\ \/ ~tasks[i].chunksDefined
           \/ tasks[i].chunks = << >>
           \/ \A k \in 1..Len(tasks[i].chunks) : tasks[i].chunks[k].status # "completed" )

\* a task in human_review whose chunks failed or never started
C9_Witness ==
  /\ tasks[1].status = "human_review" /\ Len(tasks[1].chunks) >= 2
  /\ IsIncompleteHumanReview(tasks[1])

\* a task in human_review with a completed chunk is not incomplete
C9_WitnessComplete ==
  /\ tasks[1].status = "human_review" /\ SomeChunk(tasks[1].chunks, "completed")
  /\ ~IsIncompleteHumanReview(tasks[1])

(***************************************************************************)
(* Asynchronous store functions.  Each awaits one IPC call to the main     *)
(* process: the call step runs the function up to its await, the return    *)
(* step runs it from the response to its end.  The panel calls them with   *)
(* task.id.                                                                *)
(***************************************************************************)
\* recoverStuckTask options: {targetStatus?, autoRestart?}, or no argument
NoOptions == [ given |-> FALSE, targetStatus |-> Undefined, autoRestart |-> Undefined ]

TargetInputs == {Undefined, "backlog"}

OptionInputs ==
  {NoOptions} \cup
  [ given : {TRUE}, targetStatus : TargetInputs, autoRestart : {"true", "false", Undefined} ]

\* options = { autoRestart: true } when the caller passes none
DefaultedOptions(o) ==
  IF o.given THEN o
  ELSE [ given |-> TRUE, targetStatus |-> Undefined, autoRestart |-> "true" ]

\* a store function awaiting its response
Call(fn, approved, status, options) ==
  [ fn |-> fn, taskId |-> TheTaskId, approved |-> approved, status |-> status,
    options |-> options ]

CanCall == Len(pending) < MaxInFlight

\* the sequence s without its k-th element
RemoveAt(s, k) == [ i \in 1..(Len(s) - 1) |-> IF i < k THEN s[i] ELSE s[i + 1] ]

\* what an IPC call can come back with: a success result, a failure result,
\* or a rejected promise
IpcOutcomes == {"success", "failure", "throws"}

\* submitReview up to its await
SubmitReviewCall ==
  \E approved \in BOOLEAN :
    /\ CanCall
    /\ pending' = Append(pending, Call("submitReview", approved, Undefined, NoOptions))
    /\ UNCHANGED << tasks, lastOp, running, calls, panelVars, otherVars >>

\* the store after submitReview's response, written whatever the response
AfterSubmitReview_Always(ts, call, outcome) ==
  StoreUpdateTaskStatus(ts, call.taskId, IF call.approved THEN "done" ELSE "in_progress")

\* the store after submitReview's response: the status is written on success
\* only
AfterSubmitReview(ts, call, outcome) ==
  IF outcome = "success"
    THEN StoreUpdateTaskStatus(ts, call.taskId, IF call.approved THEN "done" ELSE "in_progress")
    ELSE ts

\* what submitReview returns
SubmitReviewReturned(outcome) == outcome = "success"

\* submitReview from the response on
SubmitReviewReturn ==
  \E k \in 1..Len(pending), outcome \in IpcOutcomes :
    /\ pending[k].fn = "submitReview"
    /\ pending' = RemoveAt(pending, k)
    /\ IF outcome = "success"
         THEN /\ tasks' = AfterSubmitReview(tasks, pending[k], outcome)
              /\ Record(pending[k].taskId, Op("submitReview"))
         ELSE UNCHANGED << tasks, lastOp >>
    /\ UNCHANGED << running, calls, panelVars, otherVars >>

\* persistTaskStatus up to its await: the store is updated first
DoPersistTaskStatusCall(status, call) ==
  /\ CanCall
  /\ tasks' = StoreUpdateTaskStatus(tasks, TheTaskId, status)
  /\ Record(TheTaskId, Op("persistTaskStatus"))
  /\ pending' = Append(pending, call)

PersistTaskStatusCall ==
  \E status \in TaskStatuses :
    /\ DoPersistTaskStatusCall(status, Call("persistTaskStatus", FALSE, status, NoOptions))
    /\ UNCHANGED << running, calls, panelVars, otherVars >>

\* persistTaskStatus from the response on: only the return value depends on it
PersistTaskStatusReturn ==
  \E k \in 1..Len(pending), outcome \in IpcOutcomes :
    /\ pending[k].fn = "persistTaskStatus"
    /\ pending' = RemoveAt(pending, k)
    /\ UNCHANGED << tasks, lastOp, running, calls, panelVars, otherVars >>

\* persistUpdateTask up to its await
PersistUpdateTaskCall ==
  /\ CanCall
  /\ pending' = Append(pending, Call("persistUpdateTask", FALSE, Undefined, NoOptions))
  /\ UNCHANGED << tasks, lastOp, running, calls, panelVars, otherVars >>

\* persistUpdateTask from the response on: updateTask with the title and the
\* description, which are no fields of the model's task record
PersistUpdateTaskReturn ==
  \E k \in 1..Len(pending), outcome \in IpcOutcomes :
    /\ pending[k].fn = "persistUpdateTask"
    /\ pending' = RemoveAt(pending, k)
    /\ IF outcome = "success"
         THEN /\ tasks' = StoreUpdateTask(tasks, pending[k].taskId, << >>)
              /\ Record(pending[k].taskId, Op("updateTask"))
         ELSE UNCHANGED << tasks, lastOp >>
    /\ UNCHANGED << running, calls, panelVars, otherVars >>

(***************************************************************************)
(* The main process's side of recovery and of the worker process           *)
(***************************************************************************)
\* the status the task's chunk data derives to, backlog when nothing started
NaturalStatus(t) ==
  DeriveFromChunks([ t EXCEPT !.status = "backlog" ], t.chunks).status

\* the status recovery resets the task to
Baseline(t, options) ==
  IF options.targetStatus # Undefined THEN options.targetStatus ELSE NaturalStatus(t)

\* how the handler treats a request: it recovers, or it refuses one way or
\* another; a request for a task without a live process is always recovered
RecoverKinds(live) ==
  IF live THEN {"recovers", "failure", "nodata", "throws"} ELSE {"recovers"}

\* the response to recoverStuckTask(taskId, options); startOk tells whether a
\* requested restart manages to start the worker
RecoverResponse(t, options, kind, startOk) ==
  [ threw |-> kind = "throws",
    success |-> kind \in {"recovers", "nodata"},
    hasData |-> kind = "recovers",
    newStatus |-> IF kind = "recovers" THEN Baseline(t, options) ELSE Undefined,
    autoRestarted |-> kind = "recovers" /\ options.autoRestart = "true" /\ startOk,
    message |-> IF kind = "recovers" THEN "recovered" ELSE Undefined,
    error |-> IF kind = "failure" THEN "refused" ELSE Undefined ]

\* the worker process ends (it finishes, crashes or is killed)
WorkerExit ==
  /\ running
  /\ running' = FALSE
  /\ UNCHANGED << tasks, lastOp, pending, calls, panelVars, otherVars >>

\* startTask(taskId): the main process spawns the worker
StartTask ==
  /\ ~running
  /\ running' = TRUE
  /\ UNCHANGED << tasks, lastOp, pending, calls, panelVars, otherVars >>

\* stopTask(taskId): the main process kills the worker
StopTask ==
  /\ running
  /\ running' = FALSE
  /\ UNCHANGED << tasks, lastOp, pending, calls, panelVars, otherVars >>

(***************************************************************************)
(* recoverStuckTask                                                        *)
(***************************************************************************)
\* recoverStuckTask up to its await
RecoverStuckTaskCall ==
  \E o \in OptionInputs :
    /\ CanCall
    /\ pending' = Append(pending, Call("recoverStuckTask", FALSE, Undefined, DefaultedOptions(o)))
    /\ UNCHANGED << tasks, lastOp, running, calls, panelVars, otherVars >>

\* result.success && result.data without the status update being looked at
RecoverSucceeds_NeedsRestart(result) ==
  ~result.threw /\ result.success /\ result.hasData /\ result.autoRestarted

\* result.success without the test for result.data
RecoverSucceeds_AnyData(result) == ~result.threw /\ result.success

\* result.success && result.data, in the try block
RecoverSucceeds(result) == ~result.threw /\ result.success /\ result.hasData

\* what recoverStuckTask returns to its caller
RecoverReturned(result) ==
  IF RecoverSucceeds(result)
    THEN [ success |-> TRUE, autoRestarted |-> result.autoRestarted,
           message |-> result.message ]
    ELSE [ success |-> FALSE, autoRestarted |-> FALSE,
           message |-> IF result.threw THEN "Unknown error"
                       ELSE IF result.error # Undefined THEN result.error
                       ELSE "Failed to recover task" ]

\* the log with one more outcome: a succession is made of calls with the same
\* options, and its last two outcomes are kept
Logged(log, entry) ==
  LET same == IF log # << >> /\ log[Len(log)].options # entry.options THEN << >> ELSE log
  IN  IF Len(same) = 2 THEN << same[2], entry >> ELSE Append(same, entry)

\* recoverStuckTask from the response on; logged tells whether the outcome is
\* added to calls
RecoverStuckTaskReturn(logged) ==
  \E k \in 1..Len(pending), startOk \in BOOLEAN :
    /\ pending[k].fn = "recoverStuckTask"
    /\ \E kind \in RecoverKinds(running) :
         LET options  == pending[k].options
             result   == RecoverResponse(tasks[1], options, kind, startOk)
             returned == RecoverReturned(result)
         IN  /\ running' = (running \/ result.autoRestarted)
             /\ IF RecoverSucceeds(result)
                  THEN /\ tasks' = StoreUpdateTaskStatus(tasks, pending[k].taskId, result.newStatus)
                       /\ Record(pending[k].taskId, Op("recoverStuckTask"))
                  ELSE UNCHANGED << tasks, lastOp >>
             /\ calls' = IF logged
                           THEN Logged(calls,
                                  [ options |-> options, live |-> running,
                                    success |-> returned.success,
                                    started |-> result.autoRestarted,
                                    status |-> tasks'[1].status ])
                           ELSE calls
             /\ seen' = IF logged
                          THEN [ op |-> "recoverStuckTask", kind |-> kind,
                                 before |-> tasks[1].status,
                                 newStatus |-> result.newStatus,
                                 returned |-> returned ]
                          ELSE seen
    /\ pending' = RemoveAt(pending, k)
    /\ UNCHANGED << panel, requests, workspace, events, otherVars >>

(***************************************************************************)
(* Spec: every store operation on the task, plan and status events         *)
(* arriving while IPC calls are in flight                                  *)
(***************************************************************************)
\* the plans reported while calls are in flight
EventPlans ==
  { plan \in PlanInputs :
      Len(plan.phases) <= 1 /\ Len(FlatMapChunks(plan.phases)) <= MaxEventChunks }

Init == InitStore /\ InitIpc /\ InitPanel

PlanEvent == DoUpdateTaskFromPlan(EventPlans) /\ UNCHANGED << ipcVars, panelVars, otherVars >>

StatusEvent == DoUpdateTaskStatus /\ UNCHANGED << ipcVars, panelVars, otherVars >>

RecoverReturn == RecoverStuckTaskReturn(FALSE)

Next ==
  \/ PlanEvent
  \/ StatusEvent
  \/ SubmitReviewCall
  \/ SubmitReviewReturn
  \/ PersistTaskStatusCall
  \/ PersistTaskStatusReturn
  \/ PersistUpdateTaskCall
  \/ PersistUpdateTaskReturn
  \/ RecoverStuckTaskCall
  \/ RecoverReturn
  \/ StartTask
  \/ StopTask
  \/ WorkerExit

Spec == Init /\ [][Next]_vars

\* C6: in every state the store reaches, a task has a reviewReason only when
\* its status is human_review.
C6_ReasonOnlyInHumanReview ==
  \A i \in 1..Len(tasks) :
    tasks[i].reviewReason # Undefined => tasks[i].status = "human_review"

(***************************************************************************)
(* SpecRecover: recoverStuckTask called again and again on a task that was *)
(* started and has reported a plan, while the worker may die and status    *)
(* events may arrive                                                       *)
(***************************************************************************)
\* the task after startTask's status event and one plan update
StartedTasks ==
  { PlanApplied([ t EXCEPT !.status = "in_progress" ], plan) :
      t \in { x \in InitialTasks : x.hasMetadata /\ x.chunksDefined }, plan \in EventPlans }

InitRecover ==
  /\ \E t \in StartedTasks : tasks = << t >>
  /\ lastOp = Op("init")
  /\ pending = << >>
  /\ running \in BOOLEAN
  /\ calls = << >>
  /\ InitPanel

RecoverLogged == RecoverStuckTaskReturn(TRUE)

\* a status event between two recoveries ends the succession
StatusEventBetween ==
  /\ DoUpdateTaskStatus
  /\ calls' = << >>
  /\ UNCHANGED << pending, running, panelVars, otherVars >>

NextRecover ==
  \/ RecoverStuckTaskCall
  \/ RecoverLogged
  \/ StatusEventBetween
  \/ WorkerExit

SpecRecover == InitRecover /\ [][NextRecover]_vars

\* C10: of two recoverStuckTask calls with the same options that return one
\* right after the other and each find no live worker process, both return
\* success and the second leaves the status the first left; and a call starts
\* a worker only if it asked for autoRestart.
C10_RecoverIdempotent ==
  \A k \in 1..Len(calls) :
    /\ calls[k].started => calls[k].options.autoRestart = "true"
    /\ ( /\ k > 1
         /\ calls[k - 1].options = calls[k].options
         /\ ~calls[k - 1].live /\ ~calls[k].live )
       => /\ calls[k - 1].success /\ calls[k].success
          /\ calls[k].status = calls[k - 1].status

\* C16: a recoverStuckTask call whose request fails, by a failure result, a
\* result without data or a thrown error, returns success=false with a message
\* and leaves the store as it was; the call changes the task's status only
\* when it succeeds, and then to the newStatus of the response.
C16_FailedRecoverKeepsStatus ==
  [][ Len(pending') < Len(pending) =>
        /\ seen'.kind \in {"failure", "nodata", "throws"} =>
             /\ ~seen'.returned.success
             /\ seen'.returned.message \notin {Undefined, ""}
             /\ tasks' = tasks
        /\ seen'.kind = "recovers" =>
             /\ seen'.returned.success
             /\ tasks'[1].status = seen'.newStatus
        /\ tasks'[1].status # tasks[1].status =>
             /\ seen'.returned.success
             /\ tasks'[1].status = seen'.newStatus
    ]_vars

\* a recovery was answered without data while the worker was live: it has
\* failed with the default message and the task is in_progress as before
C16_Witness ==
  /\ seen.op = "recoverStuckTask" /\ seen.kind = "nodata"
  /\ ~seen.returned.success /\ seen.returned.message = "Failed to recover task"
  /\ seen.before = "in_progress" /\ tasks[1].status = "in_progress"

\* a recovery has succeeded and moved the task to the response's newStatus
C16_WitnessSuccess ==
  /\ seen.op = "recoverStuckTask" /\ seen.kind = "recovers"
  /\ seen.returned.success /\ seen.before # seen.newStatus
  /\ tasks[1].status = seen.newStatus

\* two recoveries with autoRestart in a row, neither finding a live process:
\* the restart of the first fails, the second starts the worker
C10_Witness ==
  /\ Len(calls) = 2
  /\ calls[1].options = calls[2].options /\ calls[1].options.autoRestart = "true"
  /\ ~calls[1].live /\ ~calls[2].live
  /\ ~calls[1].started /\ calls[2].started
  /\ calls[1].success /\ calls[2].success
  /\ tasks[1].status = calls[1].status /\ tasks[1].status # "in_progress"

(***************************************************************************)
(* The panel's effects.  A change of the task's status re-renders the      *)
(* panel and runs the effects that depend on it before anything else       *)
(* happens.                                                                *)
(***************************************************************************)
\* a call of the panel to window.electronAPI awaiting its response
Request(fn, noCommit) == [ fn |-> fn, taskId |-> TheTaskId, noCommit |-> noCommit ]

\* the stuck-check effect's branch for a task that is not running
AfterStuckEffect(p, t) ==
  IF ~IsRunning(t) THEN [ p EXCEPT !.isStuck = FALSE, !.hasCheckedRunning = FALSE ] ELSE p

\* the worktree effect, which runs when needsReview changes
AfterWorktreeEffect(p, before, after) ==
  IF NeedsReview(before) = NeedsReview(after) THEN p
  ELSE IF NeedsReview(after)
         THEN [ p EXCEPT !.isLoadingWorktree = TRUE, !.workspaceError = Null ]
         ELSE [ p EXCEPT !.worktreeStatus = Null ]

\* the panel after the effects that follow a change of the task
EffectsPanel(p, before, after) ==
  IF p.open THEN AfterWorktreeEffect(AfterStuckEffect(p, after), before, after) ELSE p

\* the worktree effect asks for the worktree's status and diff
EffectsLoad(p, before, after) == p.open /\ ~NeedsReview(before) /\ NeedsReview(after)

\* the stuck-check effect calls checkTaskRunning
EffectsCheck(p, before, after) ==
  p.open /\ ~IsRunning(before) /\ IsRunning(after) /\ ~AfterStuckEffect(p, before).hasCheckedRunning

\* updateTaskStatus(task.id, status) on a status event, and the panel's
\* effects after it
StatusSeen(status) ==
  LET after == StoreUpdateTaskStatus(tasks, TheTaskId, status)
  IN  /\ EffectsCheck(panel, tasks[1], after[1]) => CanCall
      /\ tasks' = after
      /\ Record(TheTaskId, Op("updateTaskStatus"))
      /\ panel' = EffectsPanel(panel, tasks[1], after[1])
      /\ requests' = IF EffectsLoad(panel, tasks[1], after[1])
                       THEN requests \cup {Request("getWorktreeStatus", FALSE)}
                       ELSE requests
      /\ pending' = IF EffectsCheck(panel, tasks[1], after[1])
                      THEN Append(pending, Call("checkTaskRunning", FALSE, Undefined, NoOptions))
                      ELSE pending

(***************************************************************************)
(* The main process's side of merge and discard                            *)
(***************************************************************************)
\* how the handler answers mergeWorktree or discardWorktree: only an active
\* workspace can be merged or discarded
WorkspaceKinds(ws) ==
  IF ws = "active" THEN {"success", "refused", "error", "nodetail", "throws"}
  ELSE {"refused", "error", "nodetail", "throws"}

\* the response of the kind: a rejected promise, {success: false, error?} or
\* {success: true, data: {success, message}}
WorkspaceResponse(kind) ==
  [ threw |-> kind = "throws",
    success |-> kind \in {"success", "refused"},
    hasData |-> kind \in {"success", "refused"},
    dataSuccess |-> kind = "success",
    message |-> IF kind = "refused" THEN "refused" ELSE Undefined,
    error |-> IF kind = "error" THEN "error" ELSE Undefined ]

\* the workspace after the handler: merged or discarded on success, as it was
\* on failure
WorkspaceAfter(ws, fn, kind) ==
  IF kind # "success" THEN ws
  ELSE IF fn = "mergeWorktree" THEN "merged" ELSE "discarded"

\* the status events after the handler: a merge moves the task to done, a
\* discard back to backlog
EventsAfter(evs, fn, kind) ==
  IF kind # "success" THEN evs
  ELSE Append(evs, IF fn = "mergeWorktree" THEN "done" ELSE "backlog")

(***************************************************************************)
(* handleMerge and handleDiscard                                           *)
(***************************************************************************)
\* result.success && result.data?.success
WorkspaceSucceeded(result) == result.success /\ result.hasData /\ result.dataSuccess

\* result.data?.message || result.error || fallback
WorkspaceFailureMessage(result, fallback) ==
  IF result.hasData /\ result.message # Undefined THEN result.message
  ELSE IF result.error # Undefined THEN result.error
  ELSE fallback

\* handleMerge from the response on, with the failure branch leaving isMerging
\* set
MergeContinued_KeepsFlag(p, result) ==
  IF result.threw THEN p
  ELSE IF WorkspaceSucceeded(result)
    THEN [ p EXCEPT !.open = FALSE, !.isMerging = FALSE ]
    ELSE [ p EXCEPT !.workspaceError =
                      WorkspaceFailureMessage(result, "Failed to merge changes") ]

\* handleMerge from the response on: onClose() or the failure message, then
\* setIsMerging(false); a rejected promise ends the handler at the await
MergeContinued(p, result) ==
  IF result.threw THEN p
  ELSE IF WorkspaceSucceeded(result)
    THEN [ p EXCEPT !.open = FALSE, !.isMerging = FALSE ]
    ELSE [ p EXCEPT !.workspaceError =
                      WorkspaceFailureMessage(result, "Failed to merge changes"),
                    !.isMerging = FALSE ]

\* handleDiscard from the response on
DiscardContinued(p, result) ==
  IF result.threw THEN p
  ELSE IF WorkspaceSucceeded(result)
    THEN [ p EXCEPT !.showDiscardDialog = FALSE, !.open = FALSE, !.isDiscarding = FALSE ]
    ELSE [ p EXCEPT !.workspaceError =
                      WorkspaceFailureMessage(result, "Failed to discard changes"),
                    !.isDiscarding = FALSE ]

\* the merge button is clicked: handleMerge up to its await
HandleMerge ==
  /\ MergeEnabled(tasks[1], panel)
  /\ panel' = [ panel EXCEPT !.isMerging = TRUE, !.workspaceError = Null ]
  /\ requests' = requests \cup {Request("mergeWorktree", panel.stageOnly)}
  /\ seen' = Step("handleMerge")
  /\ UNCHANGED << tasks, lastOp, pending, running, calls, workspace, events, otherVars >>

\* the response to mergeWorktree arrives
MergeWorktreeReturn ==
  \E r \in requests, kind \in WorkspaceKinds(workspace) :
    /\ r.fn = "mergeWorktree"
    /\ requests' = requests \ {r}
    /\ workspace' = WorkspaceAfter(workspace, r.fn, kind)
    /\ events' = EventsAfter(events, r.fn, kind)
    /\ panel' = MergeContinued(panel, WorkspaceResponse(kind))
    /\ seen' = [ op |-> r.fn, kind |-> kind, noCommit |-> r.noCommit ]
    /\ UNCHANGED << tasks, lastOp, pending, running, calls, otherVars >>

\* the "Stage only" checkbox is changed
SetStageOnly ==
  /\ WorkspaceShown(tasks[1], panel)
  /\ panel' = [ panel EXCEPT !.stageOnly = ~panel.stageOnly ]
  /\ seen' = Step("setStageOnly")
  /\ UNCHANGED << tasks, lastOp, pending, running, calls, requests, workspace, events, otherVars >>

\* the discard button is clicked: the confirmation dialog opens
OpenDiscardDialog ==
  /\ DiscardEnabled(tasks[1], panel)
  /\ panel' = [ panel EXCEPT !.showDiscardDialog = TRUE ]
  /\ seen' = Step("openDiscardDialog")
  /\ UNCHANGED << tasks, lastOp, pending, running, calls, requests, workspace, events, otherVars >>

\* the dialog is cancelled
CancelDiscard ==
  /\ CancelDiscardEnabled(panel)
  /\ panel' = [ panel EXCEPT !.showDiscardDialog = FALSE ]
  /\ seen' = Step("cancelDiscard")
  /\ UNCHANGED << tasks, lastOp, pending, running, calls, requests, workspace, events, otherVars >>

\* the dialog is confirmed: handleDiscard up to its await
ConfirmDiscard ==
  /\ ConfirmDiscardEnabled(panel)
  /\ panel' = [ panel EXCEPT !.isDiscarding = TRUE, !.workspaceError = Null ]
  /\ requests' = requests \cup {Request("discardWorktree", FALSE)}
  /\ seen' = Step("handleDiscard")
  /\ UNCHANGED << tasks, lastOp, pending, running, calls, workspace, events, otherVars >>

\* the response to discardWorktree arrives
DiscardWorktreeReturn ==
  \E r \in requests, kind \in WorkspaceKinds(workspace) :
    /\ r.fn = "discardWorktree"
    /\ requests' = requests \ {r}
    /\ workspace' = WorkspaceAfter(workspace, r.fn, kind)
    /\ events' = EventsAfter(events, r.fn, kind)
    /\ panel' = DiscardContinued(panel, WorkspaceResponse(kind))
    /\ seen' = [ op |-> r.fn, kind |-> kind, noCommit |-> r.noCommit ]
    /\ UNCHANGED << tasks, lastOp, pending, running, calls, otherVars >>

\* the oldest status event of the main process reaches the store
StatusDelivered ==
  /\ events # << >>
  /\ StatusSeen(Head(events))
  /\ events' = Tail(events)
  /\ seen' = Step("statusEvent")
  /\ UNCHANGED << running, calls, workspace, otherVars >>

(***************************************************************************)
(* SpecWorkspace: the panel shows a task in human_review whose workspace   *)
(* is active and whose worktree status is loaded                           *)
(***************************************************************************)
ReviewTasks == { t \in StartedTasks : t.status = "human_review" }

InitWorkspace ==
  /\ \E t \in ReviewTasks : tasks = << t >>
  /\ lastOp = Op("init")
  /\ InitIpc
  /\ panel = [ MountedPanel EXCEPT !.worktreeStatus = "exists" ]
  /\ requests = {}
  /\ workspace = "active"
  /\ events = << >>
  /\ seen = Step("init")
  /\ InitOther

NextWorkspace ==
  \/ HandleMerge
  \/ MergeWorktreeReturn
  \/ SetStageOnly
  \/ OpenDiscardDialog
  \/ CancelDiscard
  \/ ConfirmDiscard
  \/ DiscardWorktreeReturn
  \/ StatusDelivered

SpecWorkspace == InitWorkspace /\ [][NextWorkspace]_vars

\* the status events of the main process are delivered
SpecWorkspaceLive == SpecWorkspace /\ WF_vars(StatusDelivered)

InFlight(fn) == \E r \in requests : r.fn = fn

\* C11: mergeWorktree and discardWorktree are never both in flight for the
\* task, whatever the order of the merge button, the discard button and the
\* dialog's confirmation.
C11_MergeDiscardExclusive == ~(InFlight("mergeWorktree") /\ InFlight("discardWorktree"))

\* the step is the return of a merge or discard with a failure result
WorkspaceFailed ==
  /\ requests' # requests /\ requests' \subseteq requests
  /\ seen'.op \in {"mergeWorktree", "discardWorktree"}
  /\ seen'.kind \in {"refused", "error", "nodetail"}

\* merge and discard can both be asked for: the merge button is enabled, and
\* so is the discard button or the open dialog's confirmation
BothEnabled(t, p) ==
  MergeEnabled(t, p) /\ (DiscardEnabled(t, p) \/ ConfirmDiscardEnabled(p))

C12_WitnessDiscard ==
  /\ seen.op = "discardWorktree" /\ seen.kind = "nodetail"
  /\ panel.workspaceError = "Failed to discard changes"
  /\ ConfirmDiscardEnabled(panel) /\ MergeEnabled(tasks[1], panel)

\* the task is done only after a merge, and back in backlog only after a
\* discard
OnlyByWorkspace ==
  /\ tasks[1].status = "done" => workspace = "merged"
  /\ tasks[1].status = "backlog" => workspace = "discarded"
  /\ tasks[1].status \in {"human_review", "done", "backlog"}

\* C13: a successful merge, committing or stage-only, is followed by the
\* status done and a successful discard by the status backlog; the status
\* leaves human_review in no other way.
C13_MergeDoneDiscardBacklog ==
  /\ [] OnlyByWorkspace
  /\ (workspace = "merged") ~> (tasks[1].status = "done")
  /\ (workspace = "discarded") ~> (tasks[1].status = "backlog")

\* a stage-only merge has succeeded and its status event has made the task
\* done
C13_Witness ==
  /\ seen.op = "statusEvent" /\ workspace = "merged" /\ panel.stageOnly
  /\ tasks[1].status = "done" /\ events = << >>

\* a discard has succeeded and the task is back in backlog
C13_WitnessDiscard ==
  /\ seen.op = "statusEvent" /\ workspace = "discarded"
  /\ tasks[1].status = "backlog"

(***************************************************************************)
(* checkTaskRunning and the panel's stuck check                            *)
(***************************************************************************)
\* how the main process answers checkTaskRunning: it tells whether a worker
\* process is live, or the check itself fails
CheckKinds == {"answers", "nodata", "failure", "throws"}

\* the response of the kind
CheckResponse(kind, live) ==
  [ threw |-> kind = "throws",
    success |-> kind \in {"answers", "nodata"},
    data |-> IF kind = "answers" THEN (IF live THEN "true" ELSE "false") ELSE Undefined ]

\* checkTaskRunning whose catch block reports a running task
CheckTaskRunningResult_CatchHealthy(result) ==
  IF result.threw THEN TRUE ELSE result.success /\ result.data = "true"

\* checkTaskRunning: result.success && result.data === true, false when the
\* call throws
CheckTaskRunningResult(result) ==
  IF result.threw THEN FALSE ELSE result.success /\ result.data = "true"

\* the effect's then-callback without the negation
CheckContinued_Plain(p, actuallyRunning) ==
  [ p EXCEPT !.isStuck = actuallyRunning, !.hasCheckedRunning = TRUE ]

\* the effect's then-callback: setIsStuck(!actuallyRunning),
\* setHasCheckedRunning(true)
CheckContinued(p, actuallyRunning) ==
  [ p EXCEPT !.isStuck = ~actuallyRunning, !.hasCheckedRunning = TRUE ]

\* the stuck warning and the "Recover Task" button are rendered
RecoverOffered(p) == p.open /\ p.isStuck

\* the parent mounts the panel on the task: the effects run for the first time
OpenPanel ==
  /\ ~panel.open
  /\ IsRunning(tasks[1]) => CanCall
  /\ panel' = IF NeedsReview(tasks[1])
                THEN [ MountedPanel EXCEPT !.isLoadingWorktree = TRUE ]
                ELSE MountedPanel
  /\ pending' = IF IsRunning(tasks[1])
                  THEN Append(pending, Call("checkTaskRunning", FALSE, Undefined, NoOptions))
                  ELSE pending
  /\ requests' = IF NeedsReview(tasks[1])
                   THEN requests \cup {Request("getWorktreeStatus", FALSE)}
                   ELSE requests
  /\ seen' = Step("openPanel")
  /\ UNCHANGED << tasks, lastOp, running, calls, workspace, events, otherVars >>

\* the close button: onClose() unmounts the panel, and the callbacks of its
\* checks and loads find no component to update
ClosePanel ==
  /\ panel.open
  /\ panel' = NoPanel
  /\ pending' = SelectSeq(pending, LAMBDA c : c.fn # "checkTaskRunning")
  /\ requests' = { r \in requests : r.fn # "getWorktreeStatus" }
  /\ seen' = Step("closePanel")
  /\ UNCHANGED << tasks, lastOp, running, calls, workspace, events, otherVars >>

\* a status event for the task reaches the store while the panel may be open
StatusChanged ==
  \E status \in TaskStatuses :
    /\ StatusSeen(status)
    /\ seen' = Step("statusEvent")
    /\ UNCHANGED << running, calls, workspace, events, otherVars >>

\* the response to checkTaskRunning arrives: the then-callback of the effect,
\* and the effect again for the changed hasCheckedRunning
CheckTaskRunningReturn ==
  \E k \in 1..Len(pending), kind \in CheckKinds :
    /\ pending[k].fn = "checkTaskRunning"
    /\ LET actuallyRunning == CheckTaskRunningResult(CheckResponse(kind, running))
       IN  /\ panel' = EffectsPanel(CheckContinued(panel, actuallyRunning), tasks[1], tasks[1])
           /\ seen' = [ op |-> "checkTaskRunning", kind |-> kind, live |-> running,
                        actuallyRunning |-> actuallyRunning ]
    /\ pending' = RemoveAt(pending, k)
    /\ UNCHANGED << tasks, lastOp, running, calls, requests, workspace, events, otherVars >>

\* the worktree's status: it exists while the workspace is active
WorktreeStatusOf(ws) == IF ws = "active" THEN "exists" ELSE "missing"

\* getWorktreeStatus and getWorktreeDiff have answered, or one has thrown
WorktreeLoaded ==
  \E r \in requests, outcome \in IpcOutcomes :
    /\ r.fn = "getWorktreeStatus"
    /\ requests' = requests \ {r}
    /\ panel' = [ panel EXCEPT
                    !.worktreeStatus = IF outcome = "success"
                                         THEN WorktreeStatusOf(workspace)
                                         ELSE panel.worktreeStatus,
                    !.isLoadingWorktree = FALSE ]
    /\ seen' = Step("worktreeLoaded")
    /\ UNCHANGED << tasks, lastOp, pending, running, calls, workspace, events, otherVars >>

(***************************************************************************)
(* SpecStuck: the panel is opened and closed on the task while its status  *)
(* changes and the worker starts and dies                                  *)
(***************************************************************************)
NextStuck ==
  \/ OpenPanel
  \/ ClosePanel
  \/ StatusChanged
  \/ CheckTaskRunningReturn
  \/ WorktreeLoaded
  \/ StartTask
  \/ StopTask
  \/ WorkerExit

SpecStuck == Init /\ [][NextStuck]_vars

\* the step is the answer to a check, arriving while the open panel shows the
\* task as in_progress
CheckAnswered ==
  /\ seen'.op = "checkTaskRunning" /\ Len(pending') < Len(pending)
  /\ panel.open /\ IsRunning(tasks[1])

C14_WitnessLate ==
  /\ seen.op = "checkTaskRunning" /\ ~seen.actuallyRunning
  /\ panel.open /\ ~IsRunning(tasks[1]) /\ ~panel.isStuck

\* C15: when the check for a task shown as in_progress fails, with an
\* unsuccessful result, a result without data or a thrown error, the panel
\* marks the task stuck, whether or not a worker process is live.
C15_FailedCheckIsStuck ==
  [][ (CheckAnswered /\ seen'.kind \in {"nodata", "failure", "throws"})
        => (panel'.isStuck /\ RecoverOffered(panel')) ]_vars

\* the check has thrown for an in_progress task whose worker is live, and the
\* task is shown as stuck
C15_Witness ==
  /\ seen.op = "checkTaskRunning" /\ seen.kind = "throws" /\ seen.live
  /\ IsRunning(tasks[1]) /\ panel.isStuck

(***************************************************************************)
(* updateExecutionProgress.  An ExecutionProgress, and a partial one, is a *)
(* function from the names of the fields it has to their values.           *)
(***************************************************************************)
ExecutionPhases ==
  {"idle", "planning", "coding", "qa_review", "qa_fixing", "complete", "failed"}

\* the percentages the worker reports
ProgressInputs == { (100 * k) \div MaxReports : k \in 0..MaxReports }

ProgressFields == {"phase", "phaseProgress", "overallProgress", "message"}

\* the partials over the fields of the set fields
PartialsOver(fields) ==
  { [ f \in D |-> full[f] ] :
      full \in [ phase : ExecutionPhases, phaseProgress : ProgressInputs,
                 overallProgress : ProgressInputs, message : {"working"} ],
      D \in SUBSET fields }

\* Partial<ExecutionProgress>
ProgressPartials == PartialsOver(ProgressFields)

\* { phase: 'idle', phaseProgress: 0, overallProgress: 0 }
DefaultProgress == [ phase |-> "idle", phaseProgress |-> 0, overallProgress |-> 0 ]

\* t.executionProgress || { phase: 'idle', ... }
ExistingProgress(t) ==
  IF t.executionProgress = NoProgress THEN DefaultProgress ELSE t.executionProgress

\* { ...defaults, ...progress }: the update replaces what the task had
MergedProgress_Replaces(t, progress) ==
  [ f \in DOMAIN DefaultProgress \cup DOMAIN progress |->
      IF f \in DOMAIN progress THEN progress[f] ELSE DefaultProgress[f] ]

\* the merge with a report of another phase starting over from 0
MergedProgress_PhaseResets(t, progress) ==
  [ f \in DOMAIN ExistingProgress(t) \cup DOMAIN progress |->
      IF f \in DOMAIN progress THEN progress[f]
      ELSE IF /\ f = "overallProgress" /\ "phase" \in DOMAIN progress
              /\ progress.phase # ExistingProgress(t).phase
        THEN 0
        ELSE ExistingProgress(t)[f] ]

\* { ...existingProgress, ...progress }
MergedProgress(t, progress) ==
  [ f \in DOMAIN ExistingProgress(t) \cup DOMAIN progress |->
      IF f \in DOMAIN progress THEN progress[f] ELSE ExistingProgress(t)[f] ]

\* updateExecutionProgress: state.tasks.map(t => matches ? {...t,
\* executionProgress: merged} : t)
StoreUpdateExecutionProgress(ts, taskId, progress) ==
  [ i \in 1..Len(ts) |->
      IF Matches(ts[i], taskId)
        THEN [ ts[i] EXCEPT !.executionProgress = MergedProgress(ts[i], progress) ]
        ELSE ts[i] ]

\* some call so far has carried an overallProgress for the task
Reported == "reported" \in DOMAIN seen /\ seen.reported

\* updateExecutionProgress(taskId, progress) for a partial of the set partials
DoUpdateExecutionProgress(partials) ==
  \E taskId \in TaskIdInputs, progress \in partials :
    /\ tasks' = StoreUpdateExecutionProgress(tasks, taskId, progress)
    /\ Record(taskId, Op("updateExecutionProgress"))
    /\ seen' = [ op |-> "updateExecutionProgress", taskId |-> taskId,
                 progress |-> IF SomeMatch(taskId) THEN progress ELSE << >>,
                 reported |-> (Reported \/ (SomeMatch(taskId) /\
                                            "overallProgress" \in DOMAIN progress)) ]

(***************************************************************************)
(* SpecProgress: progress reports of every shape arriving for the task     *)
(***************************************************************************)
InitProgress ==
  /\ \E t \in { x \in InitialTasks : ~x.hasMetadata /\ x.sourceType = Undefined } :
       tasks = << t >>
  /\ lastOp = Op("init")
  /\ InitIpc
  /\ InitPanel

UpdateExecutionProgress ==
  /\ DoUpdateExecutionProgress(ProgressPartials)
  /\ UNCHANGED << pending, running, calls, panel, requests, workspace, events, otherVars >>

NextProgress == UpdateExecutionProgress

SpecProgress == InitProgress /\ [][NextProgress]_vars

\* the value the task had for the field before the call: the default when it
\* had no executionProgress, nothing for a message it never got
HadField(t, f) ==
  IF t.executionProgress = NoProgress THEN f \in {"phase", "phaseProgress", "overallProgress"}
  ELSE f \in DOMAIN t.executionProgress

PriorValue(t, f) ==
  IF t.executionProgress # NoProgress THEN t.executionProgress[f]
  ELSE IF f = "phase" THEN "idle" ELSE 0

\* C17: updateExecutionProgress merges: after a call that matches the task,
\* every field of the partial has the partial's value, every other field has
\* the value it had before (phase idle, phaseProgress 0 and overallProgress 0
\* when the task had no executionProgress), and the task's other fields are
\* as they were; a call that matches no task changes nothing.
C17_ProgressMerges ==
  [][ IF Matches(tasks[1], seen'.taskId)
        THEN LET now == tasks'[1].executionProgress
                 given == seen'.progress
             IN  /\ now # NoProgress
                 /\ \A f \in ProgressFields :
                      IF f \in DOMAIN given
                        THEN f \in DOMAIN now /\ now[f] = given[f]
                        ELSE IF HadField(tasks[1], f)
                          THEN f \in DOMAIN now /\ now[f] = PriorValue(tasks[1], f)
                          ELSE f \notin DOMAIN now
                 /\ [ tasks'[1] EXCEPT !.executionProgress = tasks[1].executionProgress ]
                      = tasks[1]
        ELSE tasks' = tasks
    ]_vars

\* a report of the phase alone has left the overallProgress and the message of
\* an earlier report in place
C17_Witness ==
  /\ seen.op = "updateExecutionProgress" /\ DOMAIN seen.progress = {"phase"}
  /\ tasks[1].executionProgress # NoProgress
  /\ tasks[1].executionProgress.phase = "qa_review"
  /\ tasks[1].executionProgress.overallProgress = 100
  /\ "message" \in DOMAIN tasks[1].executionProgress

\* the first report for a task carries the phase alone: the other fields have
\* their defaults
C17_WitnessDefaults ==
  /\ seen.op = "updateExecutionProgress" /\ ~Reported
  /\ tasks[1].executionProgress = [ phase |-> "coding", phaseProgress |-> 0, overallProgress |-> 0 ]

\* the phase is set and is none of idle, complete and failed
ActivePhase(t) ==
  /\ t.executionProgress # NoProgress
  /\ t.executionProgress.phase \notin {"idle", "complete", "failed"}

\* C18: from a state in which the task's phase is active to the next one in
\* which it is active, overallProgress does not decrease.
C18_OverallNeverDecreases ==
  [][ (ActivePhase(tasks[1]) /\ ActivePhase(tasks'[1]))
        => tasks'[1].executionProgress.overallProgress
             >= tasks[1].executionProgress.overallProgress ]_vars

\* C18, as it holds: between two states with an active phase, overallProgress
\* does not decrease across a call that carries no overallProgress or carries
\* one that is not below the current value; a lower reported value is taken.
C18_DecreasesOnlyWhenReported ==
  [][ ( /\ ActivePhase(tasks[1]) /\ ActivePhase(tasks'[1])
        /\ Matches(tasks[1], seen'.taskId) )
        => LET before == tasks[1].executionProgress.overallProgress
               after == tasks'[1].executionProgress.overallProgress
               given == seen'.progress
           IN  /\ "overallProgress" \in DOMAIN given => after = given.overallProgress
               /\ ("overallProgress" \in DOMAIN given => given.overallProgress >= before)
                    => after >= before ]_vars

\* a report of another active phase, without an overallProgress, has left the
\* overallProgress reported before it
C18_Witness ==
  /\ seen.op = "updateExecutionProgress" /\ Matches(tasks[1], seen.taskId)
  /\ DOMAIN seen.progress = {"phase", "message"}
  /\ ActivePhase(tasks[1]) /\ tasks[1].executionProgress.phase = "qa_fixing"
  /\ tasks[1].executionProgress.overallProgress > 0

(***************************************************************************)
(* The percentage the panel shows                                          *)
(***************************************************************************)
\* Math.round((completed / total) * 100), 0 for no chunks
Percentage(completed, total) ==
  IF total > 0 THEN (200 * completed + total) \div (2 * total) ELSE 0

\* task.chunks.filter(c => c.status === 'completed').length
CompletedCount(chunks) ==
  Cardinality({ i \in 1..Len(chunks) : chunks[i].status = "completed" })

\* getTaskProgress(task).percentage
TaskPercentage(t) == Percentage(CompletedCount(t.chunks), Len(t.chunks))

\* calculateProgress(task.chunks): the share of completed chunks, in percent
CalculateProgress(chunks) == Percentage(CompletedCount(chunks), Len(chunks))

\* executionPhase && executionPhase !== 'idle' && executionPhase !==
\* 'complete' && executionPhase !== 'failed'
HasActiveExecution(t) ==
  /\ t.executionProgress # NoProgress
  /\ t.executionProgress.phase \notin {"idle", "complete", "failed"}

\* task.executionProgress?.overallProgress || 0
OverallOrZero(t) ==
  IF t.executionProgress # NoProgress /\ "overallProgress" \in DOMAIN t.executionProgress
    THEN t.executionProgress.overallProgress
    ELSE 0

\* the display falling back to the chunks while no progress is reported
ShownPercent_FallsBack(t) ==
  IF HasActiveExecution(t) /\ OverallOrZero(t) # 0
    THEN OverallOrZero(t)
    ELSE CalculateProgress(t.chunks)

\* the percentage of the progress display and the value of its bar
ShownPercent(t) ==
  IF HasActiveExecution(t) THEN OverallOrZero(t) ELSE CalculateProgress(t.chunks)

(***************************************************************************)
(* SpecDisplay: the panel shows a started task that has up to              *)
(* MaxTotalChunks chunks, the first of them completed, while reports of    *)
(* the phase and of the overall progress arrive                            *)
(***************************************************************************)
\* the plan with total chunks of which the first completed ones are completed
CountedPlan(completed, total) ==
  [ phases |-> << [ i \in 1..total |->
                     [ id |-> i, status |-> IF i <= completed THEN "completed" ELSE "pending" ] ] >> ]

DisplayTasks ==
  UNION { { PlanApplied([ t EXCEPT !.status = "in_progress" ], CountedPlan(completed, total)) :
              t \in { x \in InitialTasks :
                        x.hasMetadata /\ x.sourceType = Undefined /\ x.chunksDefined },
              completed \in 0..total } :
          total \in 0..MaxTotalChunks }

InitDisplay ==
  /\ \E t \in DisplayTasks : tasks = << t >>
  /\ lastOp = Op("init")
  /\ InitIpc
  /\ InitPanel

ReportProgress ==
  /\ DoUpdateExecutionProgress(PartialsOver({"phase", "overallProgress"}))
  /\ UNCHANGED << pending, running, calls, panel, requests, workspace, events, otherVars >>

NextDisplay == ReportProgress

SpecDisplay == InitDisplay /\ [][NextDisplay]_vars

\* C19: while the task's phase is coding and no call has reported an
\* overallProgress, the percentage shown for a task with chunks is the share
\* of its completed chunks, rounded.
C19_CodingShowsChunkShare ==
  ( /\ tasks[1].executionProgress # NoProgress
    /\ tasks[1].executionProgress.phase = "coding"
    /\ ~Reported
    /\ Len(tasks[1].chunks) > 0 )
  => ShownPercent(tasks[1]) = TaskPercentage(tasks[1])

\* C19, as it holds: while the task's phase is active the panel shows the
\* task's overallProgress, which is 0 as long as no call has reported one,
\* whatever the chunks are; the share of the completed chunks is shown when no
\* phase is active.
C19_ActiveShowsOverall ==
  /\ (HasActiveExecution(tasks[1]) /\ ~Reported) => ShownPercent(tasks[1]) = 0
  /\ HasActiveExecution(tasks[1])
       => ShownPercent(tasks[1]) = tasks[1].executionProgress.overallProgress
  /\ ~HasActiveExecution(tasks[1]) => ShownPercent(tasks[1]) = TaskPercentage(tasks[1])

\* the phase is coding, no overallProgress was reported, two of five chunks
\* are completed: the panel shows 0, the chunks' share is 40
C19_Witness ==
  /\ tasks[1].executionProgress # NoProgress
  /\ tasks[1].executionProgress.phase = "coding" /\ ~Reported
  /\ Len(tasks[1].chunks) = 5 /\ CompletedCount(tasks[1].chunks) = 2
  /\ TaskPercentage(tasks[1]) = 40
  /\ ShownPercent(tasks[1]) = 0

(***************************************************************************)
(* The chunk ids across plan updates, checked under SpecPlan               *)
(***************************************************************************)
\* the ids of the chunks, in their order
ChunkIds(chunks) == [ i \in 1..Len(chunks) |-> chunks[i].id ]

\* the step is an updateTaskFromPlan call that matches the task
PlanStep == lastOp'.op = "updateTaskFromPlan"

MaxEntries == 1

Projects == { "p1", "p2" }

\* useProjectStore's getSelectedProject(): a project, or none
ProjectInputs == Projects \cup { Null }

SpecIds == { "s1", "s2" }

LogStatuses == { "pending", "active", "completed", "failed" }

\* the phases run one after the other: a phase that has not started holds no
\* entry and nothing after it has started, and nothing starts after a phase
\* that is active or has failed
Sequential(phases) ==
  \A i \in 1..Len(LogPhases) :
    LET ph == phases[LogPhases[i]]
        laterPending ==
          \A j \in (i + 1)..Len(LogPhases) : phases[LogPhases[j]].status = "pending"
    IN  /\ ph.status = "pending" => ph.entries = 0 /\ laterPending
        /\ ph.status \in { "active", "failed" } => laterPending

\* the TaskLogs snapshots the main process can send
LogSnapshots ==
  { [ phases |-> f ] :
      f \in { g \in [ LogPhaseNames -> [ status : LogStatuses, entries : 0..MaxEntries ] ] :
                Sequential(g) } }

\* (...).find(phase => logs.phases[phase]?.status === 'active'), as a set
ActiveLogPhase(data) ==
  LET found == { i \in 1..Len(LogPhases) : data.phases[LogPhases[i]].status = "active" }
  IN  IF found = {} THEN {}
      ELSE { LogPhases[CHOOSE i \in found : \A j \in found : i <= j] }

\* the initial load replaces the expanded set by the active phase, if any
ExpandedAfterLoad_Keeps(prev, data) == prev

ExpandedAfterLoad(prev, data) ==
  IF ActiveLogPhase(data) # {} THEN ActiveLogPhase(data) ELSE prev

\* a pushed snapshot adds its active phase, if any, to the expanded set
ExpandedAfterPush_Keeps(prev, data) == prev

ExpandedAfterPush(prev, data) == prev \cup ActiveLogPhase(data)

\* the snapshots of a spec whose phases hold no entry
StatusSnapshots ==
  { d \in LogSnapshots : \A ph \in LogPhaseNames : d.phases[ph].entries = 0 }

\* the getTaskLogs responses: data, a reported failure, or a rejected promise
LogResponses(snapshots) ==
  { [ kind |-> "success", data |-> << d >> ] : d \in snapshots }
    \cup { [ kind |-> "failure", data |-> << >> ], [ kind |-> "throws", data |-> << >> ] }

\* loadLogs after its await: result.success && result.data, catch, finally
AfterLoadLogs(l, response) ==
  IF response.kind = "success" /\ response.data # << >>
    THEN [ l EXCEPT !.phaseLogs = response.data,
                    !.expandedPhases = ExpandedAfterLoad(@, response.data[1]),
                    !.isLoadingLogs = FALSE,
                    !.last = Step("snapshot") ]
    ELSE [ l EXCEPT !.isLoadingLogs = FALSE, !.last = Step("loadFailed") ]

\* the onTaskLogsChanged listener of the effect that closed over task.specId
AfterLogsChanged(l, closedOver, specId, data) ==
  IF specId = closedOver
    THEN [ l EXCEPT !.phaseLogs = << data >>,
                    !.expandedPhases = ExpandedAfterPush(@, data),
                    !.last = Step("snapshot") ]
    ELSE [ l EXCEPT !.last = Step("ignored") ]

\* the sequence without its first element equal to x
RemoveFirst(seq, x) ==
  IF \E i \in 1..Len(seq) : seq[i] = x
    THEN RemoveAt(seq, CHOOSE i \in 1..Len(seq) :
                         seq[i] = x /\ \A j \in 1..(i - 1) : seq[j] # x)
    ELSE seq

\* the effect's cleanup: unsubscribe(), then unwatchTaskLogs(task.specId)
LogCleanup_Forgets(l) == [ l EXCEPT !.subscription = {} ]

LogCleanup(l) ==
  IF l.subscription = {} THEN l
  ELSE LET sub == CHOOSE c \in l.subscription : TRUE
       IN  [ l EXCEPT !.subscription = {},
                      !.listeners = RemoveFirst(@, sub.specId),
                      !.watchers = @ \ { sub.specId } ]

\* the effect's body: nothing without a selected project; else loadLogs(),
\* watchTaskLogs(selectedProject.id, task.specId) and onTaskLogsChanged(...)
LogSetup(l, project, specId) ==
  IF project = Null
    THEN [ l EXCEPT !.project = project, !.specId = specId ]
    ELSE [ l EXCEPT !.project = project, !.specId = specId,
                    !.isLoadingLogs = TRUE,
                    !.loads = @ \cup { specId },
                    !.watchers = @ \cup { specId },
                    !.listeners = Append(@, specId),
                    !.subscription = { [ project |-> project, specId |-> specId ] } ]

\* the panel is mounted for a task of spec id specId
MountLogs ==
  /\ ~logs.mounted
  /\ \E project \in ProjectInputs, specId \in SpecIds :
       logs' = [ LogSetup([ logs EXCEPT !.mounted = TRUE ], project, specId)
                   EXCEPT !.last = Step("mount") ]
  /\ UNCHANGED << tasks, lastOp, pending, running, calls, panel, requests, workspace,
                  events, seen, selectedTaskId, github >>

\* selectedProject or task.specId changes: the cleanup runs, then the effect
SwitchLogs ==
  /\ logs.mounted
  /\ \E project \in ProjectInputs, specId \in SpecIds :
       logs' = [ LogSetup(LogCleanup(logs), project, specId)
                   EXCEPT !.last = [ op |-> "switch", cleaned |-> logs.subscription ] ]
  /\ UNCHANGED << tasks, lastOp, pending, running, calls, panel, requests, workspace,
                  events, seen, selectedTaskId, github >>

\* the panel is unmounted: the cleanup runs, and the component's state and
\* the responses it was awaiting are gone
UnmountLogs ==
  /\ logs.mounted
  /\ logs' = [ LogCleanup(logs) EXCEPT !.mounted = FALSE, !.project = Null,
                 !.specId = Null, !.loads = {}, !.phaseLogs = << >>,
                 !.isLoadingLogs = FALSE, !.expandedPhases = {},
                 !.last = [ op |-> "unmount", cleaned |-> logs.subscription ] ]
  /\ UNCHANGED << tasks, lastOp, pending, running, calls, panel, requests, workspace,
                  events, seen, selectedTaskId, github >>

\* a getTaskLogs call of the panel returns
GetTaskLogsReturn ==
  /\ logs.mounted
  /\ \E load \in logs.loads, response \in LogResponses(StatusSnapshots) :
       logs' = AfterLoadLogs([ logs EXCEPT !.loads = @ \ { load } ], response)
  /\ UNCHANGED << tasks, lastOp, pending, running, calls, panel, requests, workspace,
                  events, seen, selectedTaskId, github >>

\* the main process sends a snapshot of a spec's logs: every registered
\* listener of the panel receives it
TaskLogsChanged ==
  /\ logs.mounted
  /\ logs.listeners # << >>
  /\ \E specId \in SpecIds, data \in StatusSnapshots :
       logs' = AfterLogsChanged(logs, logs.listeners[Len(logs.listeners)], specId, data)
  /\ UNCHANGED << tasks, lastOp, pending, running, calls, panel, requests, workspace,
                  events, seen, selectedTaskId, github >>

\* togglePhase(phase)
TogglePhase ==
  /\ logs.mounted
  /\ \E phase \in LogPhaseNames :
       logs' = [ logs EXCEPT !.expandedPhases =
                               IF phase \in @ THEN @ \ { phase } ELSE @ \cup { phase },
                             !.last = Step("toggle") ]
  /\ UNCHANGED << tasks, lastOp, pending, running, calls, panel, requests, workspace,
                  events, seen, selectedTaskId, github >>

InitLogs ==
  /\ tasks = << CHOOSE t \in InitialTasks :
                        ~t.hasMetadata /\ t.sourceType = Undefined /\ ~t.chunksDefined >>
  /\ lastOp = Op("init")
  /\ InitIpc
  /\ InitPanel

NextLogs ==
  \/ MountLogs
  \/ SwitchLogs
  \/ UnmountLogs
  \/ GetTaskLogsReturn
  \/ TaskLogsChanged
  \/ TogglePhase

SpecLogs == InitLogs /\ [][NextLogs]_vars

\* C21: the panel holds at most one log subscription at a time: one listener
\* and one watcher, for the shown spec id, while it is mounted with a selected
\* project; every watchTaskLogs is undone by its listener's removal and
\* unwatchTaskLogs when the panel is torn down or its project or spec id
\* changes, so no listener and no watcher is left without a subscription.
C21_OneSubscriptionPaired ==
  /\ Len(logs.listeners) <= 1
  /\ Cardinality(logs.watchers) <= 1
  /\ (logs.mounted /\ logs.project # Null)
       => /\ logs.listeners = << logs.specId >>
          /\ logs.watchers = { logs.specId }
          /\ logs.subscription = { [ project |-> logs.project, specId |-> logs.specId ] }
  /\ ~(logs.mounted /\ logs.project # Null)
       => logs.listeners = << >> /\ logs.watchers = {} /\ logs.subscription = {}

\* the panel was torn down after it had subscribed
C21_Witness ==
  /\ logs.last.op = "unmount"
  /\ logs.last.cleaned # {}
  /\ logs.watchers = {}
  /\ logs.listeners = << >>

\* the panel switched to another spec id and watches only that one
C21_WitnessSwitch ==
  /\ logs.last.op = "switch"
  /\ logs.last.cleaned = { [ project |-> "p1", specId |-> "s1" ] }
  /\ logs.watchers = { "s2" }
  /\ logs.listeners = << "s2" >>

CanStart(d, i) ==
  /\ d.phases[LogPhases[i]].status = "pending"
  /\ i > 1 => d.phases[LogPhases[i - 1]].status = "completed"

\* the snapshots one write after d: a phase starts, the active phase gets an
\* entry, or it completes or fails
StreamNext(d) ==
  { [ phases |-> [ d.phases EXCEPT ![LogPhases[i]].status = "active" ] ] :
      i \in { j \in 1..Len(LogPhases) : CanStart(d, j) } }
  \cup
  { [ phases |-> [ d.phases EXCEPT ![ph].entries = @ + 1 ] ] :
      ph \in { x \in LogPhaseNames :
                 d.phases[x].status = "active" /\ d.phases[x].entries < MaxEntries } }
  \cup
  { [ phases |-> [ d.phases EXCEPT ![ph].status = st ] ] :
      ph \in { x \in LogPhaseNames : d.phases[x].status = "active" },
      st \in { "completed", "failed" } }

\* the panel shows a task of spec s1 and has just run its phase-log effect;
\* the task's logs are at any point of their history
InitLogStream ==
  /\ tasks = << CHOOSE t \in InitialTasks :
                        ~t.hasMetadata /\ t.sourceType = Undefined /\ ~t.chunksDefined >>
  /\ lastOp = Op("init")
  /\ InitIpc
  /\ panel = NoPanel
  /\ requests = {}
  /\ workspace = "absent"
  /\ events = << >>
  /\ seen = Step("init")
  /\ selectedTaskId = Null
  /\ github = NoGithub
  /\ \E d \in LogSnapshots :
       logs = [ LogSetup([ NoLogs EXCEPT !.mounted = TRUE ], "p1", "s1")
                  EXCEPT !.stream = << d >> ]

\* the main process handles getTaskLogs: it reads the logs as they are now
GetTaskLogsHandled ==
  /\ logs.loads # {}
  /\ logs.answer = << >>
  /\ \E kind \in IpcOutcomes :
       logs' = [ logs EXCEPT !.answer =
                   << [ kind |-> kind,
                        data |-> IF kind = "success" THEN logs.stream ELSE << >> ] >> ]
  /\ UNCHANGED << tasks, lastOp, pending, running, calls, panel, requests, workspace,
                  events, seen, selectedTaskId, github >>

\* the response reaches the panel, whatever was pushed in between
GetTaskLogsAnswered ==
  /\ logs.answer # << >>
  /\ logs' = AfterLoadLogs([ logs EXCEPT !.loads = {}, !.answer = << >> ], logs.answer[1])
  /\ UNCHANGED << tasks, lastOp, pending, running, calls, panel, requests, workspace,
                  events, seen, selectedTaskId, github >>

\* the logs change and the watcher pushes the new snapshot to the listener
LogsWritten ==
  /\ logs.specId \in logs.watchers
  /\ logs.listeners # << >>
  /\ \E d \in StreamNext(logs.stream[1]) :
       logs' = AfterLogsChanged([ logs EXCEPT !.stream = << d >> ],
                                logs.listeners[Len(logs.listeners)], logs.specId, d)
  /\ UNCHANGED << tasks, lastOp, pending, running, calls, panel, requests, workspace,
                  events, seen, selectedTaskId, github >>

NextLogStream ==
  \/ GetTaskLogsHandled
  \/ GetTaskLogsAnswered
  \/ LogsWritten
  \/ TogglePhase

SpecLogStream == InitLogStream /\ [][NextLogStream]_vars

StatusRank(status) ==
  CASE status = "pending" -> 0
    [] status = "active" -> 1
    [] OTHER -> 2

\* phase log after follows phase log before in a phase's history
NotBefore(before, after) ==
  /\ StatusRank(after.status) >= StatusRank(before.status)
  /\ StatusRank(before.status) = 2 => after.status = before.status
  /\ after.entries >= before.entries

\* C23: in the phase logs the panel holds, no phase's status ever goes back
\* and no phase's entry list ever shrinks, in whatever order the getTaskLogs
\* response and the pushed snapshots are applied.
C23_LogsNeverRegress ==
  [][ (logs.phaseLogs # << >> /\ logs'.phaseLogs # << >>)
        => \A ph \in LogPhaseNames :
             NotBefore(logs.phaseLogs[1].phases[ph], logs'.phaseLogs[1].phases[ph]) ]_vars

(***************************************************************************)
(* TaskDetailPanel: review and start/stop                                  *)
(***************************************************************************)
MaxFeedback == 2

Whitespace == { " ", "\n" }

FeedbackChars == Whitespace \cup { "x" }

\* the texts the user can type into the feedback field
FeedbackInputs == UNION { [ 1..n -> FeedbackChars ] : n \in 0..MaxFeedback }

\* String.prototype.trim(): the text without its leading and trailing
\* whitespace
RECURSIVE Trim(_)
Trim(text) ==
  IF text = << >> THEN text
  ELSE IF Head(text) \in Whitespace THEN Trim(Tail(text))
  ELSE IF text[Len(text)] \in Whitespace THEN Trim(SubSeq(text, 1, Len(text) - 1))
  ELSE text

\* !feedback, without the trim
NoFeedback_Untrimmed(text) == text = << >>

\* !feedback.trim()
NoFeedback(text) == Trim(text) = << >>

\* the button at the bottom of the panel: Recover, Resume, Start or Stop
OfferedAction(p, t) ==
  IF p.isStuck THEN "recover"
  ELSE IF IsIncompleteHumanReview(t) THEN "resume"
  ELSE IF t.status \in { "backlog", "in_progress" }
         THEN IF IsRunning(t) THEN "stop" ELSE "start"
  ELSE "none"

\* handleStartStop, were it to stop whatever is not running
StartStopIssued_Stops(p, t) ==
  IF ~IsRunning(t) /\ ~p.isStuck THEN "stopTask" ELSE "startTask"

\* handleStartStop: stopTask(task.id) for a running task that is not stuck,
\* startTask(task.id) otherwise
StartStopIssued(p, t) ==
  IF IsRunning(t) /\ ~p.isStuck THEN "stopTask" ELSE "startTask"

\* handleReject after its await
RejectContinued(p) == [ p EXCEPT !.isSubmitting = FALSE, !.feedback = << >> ]

\* the feedback field is edited
SetFeedback ==
  /\ panel.open
  /\ NeedsReview(tasks[1])
  /\ \E text \in FeedbackInputs : panel' = [ panel EXCEPT !.feedback = text ]
  /\ seen' = Step("setFeedback")
  /\ UNCHANGED << tasks, lastOp, pending, running, calls, requests, workspace, events,
                  otherVars >>

\* handleApprove up to its await
HandleApprove ==
  /\ panel.open
  /\ NeedsReview(tasks[1])
  /\ CanCall
  /\ panel' = [ panel EXCEPT !.isSubmitting = TRUE ]
  /\ pending' = Append(pending, Call("submitReview", TRUE, Undefined, NoOptions))
  /\ seen' = Step("handleApprove")
  /\ UNCHANGED << tasks, lastOp, running, calls, requests, workspace, events, otherVars >>

\* the Request Changes button, disabled while submitting or without feedback,
\* and handleReject up to its await
HandleReject ==
  /\ panel.open
  /\ NeedsReview(tasks[1])
  /\ LET called == ~panel.isSubmitting /\ ~NoFeedback(panel.feedback)
     IN  /\ called => CanCall
         /\ panel' = IF called THEN [ panel EXCEPT !.isSubmitting = TRUE ] ELSE panel
         /\ pending' = IF called
                         THEN Append(pending, Call("submitReview", FALSE, Undefined, NoOptions))
                         ELSE pending
         /\ seen' = [ op |-> "handleReject", feedback |-> panel.feedback,
                      submitting |-> panel.isSubmitting, called |-> called,
                      before |-> tasks, inFlight |-> pending ]
  /\ UNCHANGED << tasks, lastOp, running, calls, requests, workspace, events, otherVars >>

\* submitReview's response arrives: the store function's end, then the rest of
\* handleApprove (onClose) or of handleReject, then the panel's effects
SubmitReviewAnswered ==
  \E k \in 1..Len(pending), outcome \in IpcOutcomes :
    /\ pending[k].fn = "submitReview"
    /\ LET call == pending[k]
           after == AfterSubmitReview(tasks, call, outcome)
           rest == RemoveAt(pending, k)
           stays == panel.open /\ ~call.approved
           check == stays /\ EffectsCheck(panel, tasks[1], after[1])
       IN  /\ tasks' = after
           /\ lastOp' = IF outcome = "success" THEN Op("submitReview") ELSE lastOp
           /\ panel' = IF stays
                         THEN EffectsPanel(RejectContinued(panel), tasks[1], after[1])
                         ELSE NoPanel
           /\ pending' = IF check
                           THEN Append(rest, Call("checkTaskRunning", FALSE, Undefined, NoOptions))
                           ELSE IF stays THEN rest
                           ELSE SelectSeq(rest, LAMBDA c : c.fn # "checkTaskRunning")
           /\ requests' = IF stays THEN requests
                          ELSE { r \in requests : r.fn # "getWorktreeStatus" }
           /\ seen' = [ op |-> "submitReview", approved |-> call.approved,
                        outcome |-> outcome, returned |-> SubmitReviewReturned(outcome),
                        before |-> tasks ]
    /\ UNCHANGED << running, calls, workspace, events, otherVars >>

\* the Resume, Start or Stop button is clicked
HandleStartStop ==
  /\ panel.open
  /\ OfferedAction(panel, tasks[1]) \in { "resume", "start", "stop" }
  /\ LET issued == StartStopIssued(panel, tasks[1])
     IN  /\ running' = (issued = "startTask")
         /\ seen' = [ op |-> "handleStartStop", task |-> tasks[1], stuck |-> panel.isStuck,
                      offered |-> OfferedAction(panel, tasks[1]), issued |-> issued ]
  /\ UNCHANGED << tasks, lastOp, pending, calls, panel, requests, workspace, events,
                  otherVars >>

\* the tasks a panel can show: any status, any plan
ShownTasks ==
  { [ t EXCEPT !.status = status ] :
      t \in StartedTasks, status \in { "backlog", "in_progress", "human_review" } }

\* the panel is open on a task; an in_progress task whose worker died may have
\* been found stuck
InitReview ==
  /\ \E t \in ShownTasks, stuck \in BOOLEAN :
       /\ stuck => IsRunning(t)
       /\ tasks = << t >>
       /\ panel = [ MountedPanel EXCEPT !.isStuck = stuck, !.hasCheckedRunning = IsRunning(t) ]
       /\ running = (IsRunning(t) /\ ~stuck)
  /\ lastOp = Op("init")
  /\ pending = << >>
  /\ calls = << >>
  /\ requests = {}
  /\ workspace = "absent"
  /\ events = << >>
  /\ seen = Step("init")
  /\ InitOther

NextReview ==
  \/ SetFeedback
  \/ HandleApprove
  \/ HandleReject
  \/ SubmitReviewAnswered
  \/ HandleStartStop
  \/ CheckTaskRunningReturn

SpecReview == InitReview /\ [][NextReview]_vars

\* the text is empty or holds whitespace only
OnlyWhitespace(text) == \A i \in 1..Len(text) : text[i] \in Whitespace

\* C24: a rejection whose feedback is empty or only whitespace stops in the
\* panel: no submitReview call is issued for it (the calls in flight are
\* those of before) and no task changes.
C24_BlankRejectionStaysLocal ==
  (seen.op = "handleReject" /\ OnlyWhitespace(seen.feedback))
    => /\ ~seen.called
       /\ pending = seen.inFlight
       /\ tasks = seen.before

\* a rejection with whitespace-only feedback was attempted
C24_Witness ==
  /\ seen.op = "handleReject"
  /\ seen.feedback = << " ", "\n" >>
  /\ ~seen.called

\* a rejection with feedback was submitted
C24_WitnessCalled ==
  /\ seen.op = "handleReject"
  /\ seen.called
  /\ Len(pending) = 1

NoCompletedChunk(t) ==
  \A i \in 1..Len(t.chunks) : t.chunks[i].status # "completed"

\* C25: for a task in human_review with no completed chunk that is not
\* marked stuck, the button offered is Resume, and clicking it issues
\* startTask, not stopTask or recoverStuckTask.
C25_IncompleteReviewResumes ==
  (/\ seen.op = "handleStartStop"
   /\ seen.task.status = "human_review"
   /\ NoCompletedChunk(seen.task)
   /\ ~seen.stuck)
    => /\ seen.offered = "resume"
       /\ seen.issued = "startTask"
       /\ running
       /\ \A k \in 1..Len(pending) : pending[k].fn # "recoverStuckTask"

\* Resume was clicked for an incomplete task that has a plan
C25_Witness ==
  /\ seen.op = "handleStartStop"
  /\ seen.task.status = "human_review"
  /\ Len(seen.task.chunks) > 0
  /\ seen.offered = "resume"
  /\ seen.issued = "startTask"

\* C29: submitReview changes the store only on a successful response: the
\* task is then done when approved and in_progress when not, and true is
\* returned; on a failure or a rejected promise false is returned and the
\* store is as it was.
C29_ReviewWritesOnSuccessOnly ==
  seen.op = "submitReview"
    => IF seen.outcome = "success"
         THEN /\ seen.returned
              /\ tasks[1].status = IF seen.approved THEN "done" ELSE "in_progress"
         ELSE /\ ~seen.returned
              /\ tasks = seen.before

\* a rejection failed in the main process and left the task in human_review
C29_Witness ==
  /\ seen.op = "submitReview"
  /\ seen.outcome = "failure"
  /\ ~seen.approved
  /\ tasks[1].status = "human_review"

\* an approval succeeded
C29_WitnessApproved ==
  /\ seen.op = "submitReview"
  /\ seen.outcome = "success"
  /\ seen.approved
  /\ tasks[1].status = "done"

(***************************************************************************)
(* persistTaskStatus, with the status the task had before the call         *)
(***************************************************************************)
\* what persistTaskStatus returns
PersistTaskStatusReturned(outcome) == outcome = "success"

\* persistTaskStatus(taskId, status) up to its await
PersistTaskStatusCalled ==
  \E status \in TaskStatuses :
    /\ DoPersistTaskStatusCall(status,
         [ fn |-> "persistTaskStatus", taskId |-> TheTaskId, approved |-> FALSE,
           status |-> status, options |-> NoOptions, before |-> tasks[1].status ])
    /\ seen' = Step("persistTaskStatusCall")
    /\ UNCHANGED << running, calls, panel, requests, workspace, events, otherVars >>

\* the response to updateTaskStatus arrives: the store is left as it is
PersistTaskStatusAnswered ==
  \E k \in 1..Len(pending), outcome \in IpcOutcomes :
    /\ pending[k].fn = "persistTaskStatus"
    /\ pending' = RemoveAt(pending, k)
    /\ seen' = [ op |-> "persistTaskStatus", outcome |-> outcome,
                 status |-> pending[k].status, before |-> pending[k].before,
                 returned |-> PersistTaskStatusReturned(outcome) ]
    /\ UNCHANGED << tasks, lastOp, running, calls, panel, requests, workspace, events,
                    otherVars >>

\* no panel is open; the task has any status
InitPersist ==
  /\ \E t \in StartedTasks, status \in TaskStatuses :
       tasks = << [ t EXCEPT !.status = status ] >>
  /\ lastOp = Op("init")
  /\ InitIpc
  /\ InitPanel

NextPersist ==
  \/ PersistTaskStatusCalled
  \/ PersistTaskStatusAnswered

SpecPersist == InitPersist /\ [][NextPersist]_vars

\* C28: when persistTaskStatus fails to persist (a failure result or a
\* rejected promise), the task's status in the store is the one it had before
\* the call.
C28_FailedPersistRestores ==
  (seen.op = "persistTaskStatus" /\ seen.outcome # "success")
    => tasks[1].status = seen.before

(***************************************************************************)
(* PR labels: syncPRLabel and markPRNeedsRereview.  A label is its text    *)
(* cut after the prefix, when it has one.                                  *)
(***************************************************************************)
LABEL_PREFIX == "AC:"

AC_LABELS ==
  [ APPROVED |-> << LABEL_PREFIX, " Approved" >>,
    CHANGES_REQUESTED |-> << LABEL_PREFIX, " Changes Requested" >>,
    NEEDS_REREVIEW |-> << LABEL_PREFIX, " Needs Re-review" >> ]

\* the labels a PR can carry: the three above and one of the repository's own
PRLabels ==
  { AC_LABELS.APPROVED, AC_LABELS.CHANGES_REQUESTED, AC_LABELS.NEEDS_REREVIEW, << "bug" >> }

ReviewStatuses == { "approve", "request_changes", "comment" }

\* label.startsWith(LABEL_PREFIX)
StartsWithPrefix(label) == Head(label) = LABEL_PREFIX

\* mapStatusToLabel(status)
MapStatusToLabel(status) ==
  IF status = "request_changes" THEN AC_LABELS.CHANGES_REQUESTED ELSE AC_LABELS.APPROVED

\* getACLabelsToRemove(currentLabels, keepLabel)
GetACLabelsToRemove(currentLabels, keepLabel) ==
  { label \in currentLabels : StartsWithPrefix(label) /\ label # keepLabel }

\* a GitHub request succeeds or fails
FetchOutcomes == { "ok", "error" }

\* the labels after a DELETE that would have to succeed for the sync to go on
LabelsAfterRemove_Strict(labels, label, outcome) == labels \ { label }

\* the labels after removeLabel's DELETE, whose failure allSettled swallows
LabelsAfterRemove(labels, label, outcome) ==
  IF outcome = "ok" THEN labels \ { label } ELSE labels

\* the sync ends: its try block finished or its catch swallowed an error
SyncCompleted(g, applied) ==
  [ g EXCEPT !.sync = << >>,
             !.last = [ op |-> "completed", keep |-> g.sync[1].keep, applied |-> applied,
                        before |-> g.sync[1].before ] ]

\* a sync that keeps label keep starts: fetchCurrentLabels is awaited
SyncStarted(g, keep) ==
  [ g EXCEPT !.sync = << [ keep |-> keep, stage |-> "fetch", toRemove |-> {},
                           before |-> g.labels ] >>,
             !.last = Step("syncStarted") ]

\* syncPRLabel(token, repo, prNumber, status) up to its first await
SyncPRLabel ==
  /\ github.sync = << >>
  /\ \E status \in ReviewStatuses :
       github' = SyncStarted(github, MapStatusToLabel(status))
  /\ UNCHANGED << tasks, lastOp, pending, running, calls, panelVars, logs, selectedTaskId >>

\* markPRNeedsRereview(token, repo, prNumber) up to its first await
MarkPRNeedsRereview ==
  /\ github.sync = << >>
  /\ github' = SyncStarted(github, AC_LABELS.NEEDS_REREVIEW)
  /\ UNCHANGED << tasks, lastOp, pending, running, calls, panelVars, logs, selectedTaskId >>

\* fetchCurrentLabels answers: removeOldACLabels issues its DELETEs, or the
\* catch ends the sync
LabelsFetched ==
  /\ github.sync # << >>
  /\ github.sync[1].stage = "fetch"
  /\ \E outcome \in FetchOutcomes :
       github' =
         IF outcome = "ok"
           THEN [ github EXCEPT !.sync[1].stage = "remove",
                    !.sync[1].toRemove = GetACLabelsToRemove(github.labels, github.sync[1].keep),
                    !.last = Step("fetched") ]
           ELSE SyncCompleted(github, FALSE)
  /\ UNCHANGED << tasks, lastOp, pending, running, calls, panelVars, logs, selectedTaskId >>

\* one of the DELETEs is answered
LabelRemoved ==
  /\ github.sync # << >>
  /\ github.sync[1].stage = "remove"
  /\ \E label \in github.sync[1].toRemove, outcome \in FetchOutcomes :
       github' = [ github EXCEPT !.labels = LabelsAfterRemove(@, label, outcome),
                                 !.sync[1].toRemove = @ \ { label },
                                 !.last = Step("removed") ]
  /\ UNCHANGED << tasks, lastOp, pending, running, calls, panelVars, logs, selectedTaskId >>

\* every DELETE has settled: addLabel's POST is sent and answered
LabelAdded ==
  /\ github.sync # << >>
  /\ github.sync[1].stage = "remove"
  /\ github.sync[1].toRemove = {}
  /\ \E outcome \in FetchOutcomes :
       github' =
         IF outcome = "ok"
           THEN SyncCompleted([ github EXCEPT !.labels = @ \cup { github.sync[1].keep } ], TRUE)
           ELSE SyncCompleted(github, FALSE)
  /\ UNCHANGED << tasks, lastOp, pending, running, calls, panelVars, logs, selectedTaskId >>

\* the PR carries any labels
InitLabels ==
  /\ tasks = << CHOOSE t \in InitialTasks :
                        ~t.hasMetadata /\ t.sourceType = Undefined /\ ~t.chunksDefined >>
  /\ lastOp = Op("init")
  /\ InitIpc
  /\ panel = NoPanel
  /\ requests = {}
  /\ workspace = "absent"
  /\ events = << >>
  /\ seen = Step("init")
  /\ logs = NoLogs
  /\ selectedTaskId = Null
  /\ \E labels \in SUBSET PRLabels : github = [ NoGithub EXCEPT !.labels = labels ]

NextLabels ==
  \/ SyncPRLabel
  \/ MarkPRNeedsRereview
  \/ LabelsFetched
  \/ LabelRemoved
  \/ LabelAdded

SpecLabels == InitLabels /\ [][NextLabels]_vars

\* C27: once syncPRLabel or markPRNeedsRereview has completed and applied its
\* label, that label is the only one with the "AC:" prefix on the PR, and the
\* labels without the prefix are those of before.
C27_OneACLabel ==
  (github.last.op = "completed" /\ github.last.applied)
    => /\ { label \in github.labels : StartsWithPrefix(label) } = { github.last.keep }
       /\ { label \in github.labels : ~StartsWithPrefix(label) }
            = { label \in github.last.before : ~StartsWithPrefix(label) }

(***************************************************************************)
(* PR reviews: the runningReviews registry of the main process             *)
(***************************************************************************)
MaxReviews == 2

\* getReviewKey(projectId, prNumber): `${projectId}:${prNumber}`
ReviewKeys == { "p1:1", "p1:2" }

Pids == 1..MaxReviews

\* runningReviews.set(reviewKey, childProcess)
RegistrySet(registry, key, pid) ==
  { e \in registry : e.key # key } \cup { [ key |-> key, pid |-> pid ] }

\* runningReviews.delete(reviewKey)
RegistryDelete(registry, key) == { e \in registry : e.key # key }

\* runningReviews.has(reviewKey)
RegistryHas(registry, key) == \E e \in registry : e.key = key

\* a subprocess is spawned for the key and registered under it
Spawned(g, key, kind) ==
  [ g EXCEPT !.reviews = @ \cup { [ pid |-> g.nextPid, key |-> key,
                                    state |-> "running", outcome |-> Null ] },
             !.runningReviews = RegistrySet(@, key, g.nextPid),
             !.nextPid = @ + 1,
             !.last = Step(kind) ]

\* the registry after the awaited promise settled, were the entry deleted
\* after the try block instead of in a finally
RegistryAfterSettled_NoFinally(registry, review) ==
  IF review.outcome = "success" THEN RegistryDelete(registry, review.key) ELSE registry

\* the registry after the awaited promise settled: finally { delete(reviewKey) }
RegistryAfterSettled(registry, review) == RegistryDelete(registry, review.key)

\* GITHUB_PR_REVIEW: runPRReview spawns and registers the subprocess
ReviewRequested ==
  /\ github.nextPid <= MaxReviews
  /\ \E key \in ReviewKeys : github' = Spawned(github, key, "review")
  /\ UNCHANGED << tasks, lastOp, pending, running, calls, panelVars, logs, selectedTaskId >>

\* GITHUB_PR_FOLLOWUP_REVIEW: nothing when a review of the key is registered
FollowupRequested ==
  /\ github.nextPid <= MaxReviews
  /\ \E key \in ReviewKeys :
       github' = IF RegistryHas(github.runningReviews, key)
                   THEN [ github EXCEPT !.last = Step("followupSkipped") ]
                   ELSE Spawned(github, key, "followup")
  /\ UNCHANGED << tasks, lastOp, pending, running, calls, panelVars, logs, selectedTaskId >>

\* GITHUB_PR_REVIEW_CANCEL: the registered subprocess is killed and its entry
\* deleted; the subprocess exits later
CancelRequested ==
  /\ \E key \in ReviewKeys :
       /\ RegistryHas(github.runningReviews, key)
       /\ github' = [ github EXCEPT
                        !.reviews = { IF [ key |-> key, pid |-> review.pid ] \in github.runningReviews
                                           /\ review.state = "running"
                                        THEN [ review EXCEPT !.state = "killed" ]
                                        ELSE review : review \in @ },
                        !.runningReviews = RegistryDelete(@, key),
                        !.last = Step("cancel") ]
  /\ UNCHANGED << tasks, lastOp, pending, running, calls, panelVars, logs, selectedTaskId >>

\* a review subprocess exits, by itself or killed
ReviewExits ==
  /\ \E review \in github.reviews, outcome \in { "success", "error" } :
       /\ review.state \in { "running", "killed" }
       /\ github' = [ github EXCEPT
                        !.reviews = (@ \ { review })
                                      \cup { [ review EXCEPT !.state = "exited",
                                                             !.outcome = outcome ] },
                        !.last = Step("exit") ]
  /\ UNCHANGED << tasks, lastOp, pending, running, calls, panelVars, logs, selectedTaskId >>

\* the completion promise of an exited subprocess settles and the code after
\* the await runs
ReviewSettled ==
  /\ \E review \in github.reviews :
       /\ review.state = "exited"
       /\ github' = [ github EXCEPT
                        !.reviews = @ \ { review },
                        !.runningReviews = RegistryAfterSettled(@, review),
                        !.last = [ op |-> "settled", outcome |-> review.outcome ] ]
  /\ UNCHANGED << tasks, lastOp, pending, running, calls, panelVars, logs, selectedTaskId >>

InitReviews ==
  /\ tasks = << CHOOSE t \in InitialTasks :
                        ~t.hasMetadata /\ t.sourceType = Undefined /\ ~t.chunksDefined >>
  /\ lastOp = Op("init")
  /\ InitIpc
  /\ InitPanel

NextReviews ==
  \/ ReviewRequested
  \/ FollowupRequested
  \/ CancelRequested
  \/ ReviewExits
  \/ ReviewSettled

SpecReviews == InitReviews /\ [][NextReviews]_vars

\* the event loop runs the continuation of every settled promise
SpecReviewsLive == SpecReviews /\ WF_vars(ReviewSettled)

\* subprocess pid has exited and its promise has not settled yet
Exited(pid) == \E review \in github.reviews : review.pid = pid /\ review.state = "exited"

\* the registry holds subprocess pid
Registered(pid) == \E e \in github.runningReviews : e.pid = pid

\* C30: every registered review subprocess is eventually unregistered once it
\* has exited, with success or with an error: the registry then holds no
\* entry of that subprocess.
C30_SettledIsUnregistered ==
  \A pid \in Pids : (Exited(pid) /\ Registered(pid)) ~> ~Registered(pid)

\* a subprocess that ended with an error has settled and the registry is empty
C30_Witness ==
  /\ github.last.op = "settled"
  /\ github.last.outcome = "error"
  /\ github.runningReviews = {}
  /\ github.reviews = {}

(***************************************************************************)
(* deleteTask and the selection                                            *)
(***************************************************************************)
OtherTaskId == "t2"
OtherSpecId == "s2"

\* a task of the list, by its ids and status
ListedTask(id, specId, status) ==
  [ (CHOOSE t \in InitialTasks : ~t.hasMetadata /\ t.sourceType = Undefined /\ ~t.chunksDefined)
      EXCEPT !.id = id, !.specId = specId, !.status = status ]

\* the lists the store can hold: the first task, the second, or both
ListedStores ==
  UNION { { << ListedTask(TheTaskId, TheSpecId, st) >>,
            << ListedTask(OtherTaskId, OtherSpecId, st) >>,
            << ListedTask(TheTaskId, TheSpecId, st), ListedTask(OtherTaskId, OtherSpecId, "backlog") >> } :
          st \in { "backlog", "human_review", "done" } }

\* the ids deleteTask is called with: a task's id, a task's spec id, or neither
DeleteInputs == { TheTaskId, TheSpecId, OtherTaskId, NoSuchId }

\* store.tasks.filter(t => t.id !== taskId && t.specId !== taskId)
WithoutTask(ts, taskId) == SelectSeq(ts, LAMBDA t : t.id # taskId /\ t.specId # taskId)

\* the selection after a delete that cleared it whenever the selected task
\* was removed
SelectionAfterDelete_ByTask(selected, ts, taskId) ==
  IF \E i \in 1..Len(ts) : ts[i].id = selected /\ Matches(ts[i], taskId) THEN Null ELSE selected

\* if (store.selectedTaskId === taskId) store.selectTask(null), where store is
\* the state read before the await; the selection is written only then
SelectionAfterDelete(selected, ts, taskId) ==
  IF selected = taskId THEN Null ELSE selected

\* what deleteTask returns
DeleteTaskReturned(outcome) ==
  CASE outcome = "success" -> [ success |-> TRUE, error |-> Undefined ]
    [] outcome = "failure" -> [ success |-> FALSE, error |-> "Failed to delete task" ]
    [] OTHER -> [ success |-> FALSE, error |-> "Unknown error" ]

\* selectTask(taskId): a task of the list is selected, or none
SelectTask ==
  /\ \E id \in { tasks[i].id : i \in 1..Len(tasks) } \cup { Null } :
       /\ id # selectedTaskId
       /\ selectedTaskId' = id
  /\ seen' = Step("selectTask")
  /\ UNCHANGED << tasks, lastOp, pending, running, calls, panel, requests, workspace,
                  events, logs, github >>

\* deleteTask(taskId) up to its await: store is the state read at the call
DeleteTaskCall ==
  /\ CanCall
  /\ \E taskId \in DeleteInputs :
       pending' = Append(pending,
                    [ fn |-> "deleteTask", taskId |-> taskId,
                      store |-> [ tasks |-> tasks, selectedTaskId |-> selectedTaskId ] ])
  /\ seen' = Step("deleteTaskCall")
  /\ UNCHANGED << tasks, lastOp, running, calls, panel, requests, workspace, events,
                  otherVars >>

\* deleteTask from the response on
DeleteTaskReturn ==
  \E k \in 1..Len(pending), outcome \in IpcOutcomes :
    /\ pending[k].fn = "deleteTask"
    /\ LET call == pending[k]
           chosen == SelectionAfterDelete(call.store.selectedTaskId, call.store.tasks,
                                          call.taskId)
       IN  /\ pending' = RemoveAt(pending, k)
           /\ tasks' = IF outcome = "success"
                         THEN WithoutTask(call.store.tasks, call.taskId) ELSE tasks
           /\ selectedTaskId' =
                IF outcome = "success" /\ chosen # call.store.selectedTaskId
                  THEN chosen ELSE selectedTaskId
           /\ lastOp' = IF outcome = "success" THEN Op("deleteTask") ELSE lastOp
           /\ seen' = [ op |-> "deleteTask", taskId |-> call.taskId, outcome |-> outcome,
                        returned |-> DeleteTaskReturned(outcome),
                        before |-> [ tasks |-> tasks, selectedTaskId |-> selectedTaskId ] ]
    /\ UNCHANGED << running, calls, panel, requests, workspace, events, logs, github >>

\* addTask(task): a task that is not in the list is appended
AddTask ==
  /\ \E t \in { ListedTask(TheTaskId, TheSpecId, "backlog"),
                 ListedTask(OtherTaskId, OtherSpecId, "backlog") } :
       /\ \A i \in 1..Len(tasks) : tasks[i].id # t.id
       /\ tasks' = Append(tasks, t)
  /\ lastOp' = Op("addTask")
  /\ seen' = Step("addTask")
  /\ UNCHANGED << pending, running, calls, panel, requests, workspace, events, otherVars >>

\* updateTaskStatus(taskId, status) for a task of the list, on a status event
ListedStatusChanged ==
  /\ \E i \in 1..Len(tasks), status \in { "backlog", "human_review", "done" } :
       /\ tasks[i].status # status
       /\ tasks' = StoreUpdateTaskStatus(tasks, tasks[i].id, status)
  /\ lastOp' = Op("updateTaskStatus")
  /\ seen' = Step("updateTaskStatus")
  /\ UNCHANGED << pending, running, calls, panel, requests, workspace, events, otherVars >>

InitDelete ==
  /\ \E ts \in ListedStores :
       /\ tasks = ts
       /\ selectedTaskId \in { ts[i].id : i \in 1..Len(ts) } \cup { Null }
  /\ lastOp = Op("init")
  /\ InitIpc
  /\ panel = NoPanel
  /\ requests = {}
  /\ workspace = "absent"
  /\ events = << >>
  /\ seen = Step("init")
  /\ logs = NoLogs
  /\ github = NoGithub

NextDelete ==
  \/ SelectTask
  \/ AddTask
  \/ ListedStatusChanged
  \/ DeleteTaskCall
  \/ DeleteTaskReturn

SpecDelete == InitDelete /\ [][NextDelete]_vars

\* the ids of the tasks of ts that deleteTask(taskId) removes
DeletedIds(ts, taskId) ==
  { ts[i].id : i \in { j \in 1..Len(ts) : Matches(ts[j], taskId) } }

\* C26: after deleteTask(taskId) succeeded the store holds no task whose id or
\* specId is taskId and the selection is not a task it removed; after it
\* failed or threw, the list and the selection are as before and
\* {success: false, error} is returned.
C26_DeleteRemovesAndDeselects ==
  seen.op = "deleteTask"
    => IF seen.outcome = "success"
         THEN /\ \A i \in 1..Len(tasks) : ~Matches(tasks[i], seen.taskId)
              /\ selectedTaskId \notin DeletedIds(seen.before.tasks, seen.taskId)
              /\ seen.returned.success
         ELSE /\ tasks = seen.before.tasks
              /\ selectedTaskId = seen.before.selectedTaskId
              /\ ~seen.returned.success
              /\ seen.returned.error # Undefined

\* the review subprocesses of a key that run and were not killed
AliveReviews(key) ==
  { review \in github.reviews : review.key = key /\ review.state = "running" }

\* C31: whatever the order of review, follow-up and cancel requests for a
\* key, at most one review subprocess is alive for the key, and every alive
\* subprocess is the one registered under its key, where a cancel finds it.
C31_OneAliveAndRegistered ==
  \A key \in ReviewKeys :
    /\ Cardinality(AliveReviews(key)) <= 1
    /\ \A review \in AliveReviews(key) :
         [ key |-> key, pid |-> review.pid ] \in github.runningReviews

\* C32: a successful deleteTask removes only its target: the list after it is
\* the list of just before without the tasks of that id or spec id, so what
\* was added or updated while the request was in flight is still there, and a
\* selection of another task made meanwhile is kept.
C32_DeleteKeepsOtherChanges ==
  (seen.op = "deleteTask" /\ seen.outcome = "success")
    => /\ tasks = SelectSeq(seen.before.tasks, LAMBDA t : ~Matches(t, seen.taskId))
       /\ seen.before.selectedTaskId \notin DeletedIds(seen.before.tasks, seen.taskId)
            => selectedTaskId = seen.before.selectedTaskId

(***************************************************************************)
(* The panel is re-rendered with another task: selecting a task in the     *)
(* list changes the task prop of the mounted TaskDetailPanel, its state    *)
(* is kept, and the effects whose dependencies changed run again.  A       *)
(* worktree status or diff is modelled by the id of the task it describes, *)
(* and checkedFor remembers the task the applied liveness check was for.   *)
(***************************************************************************)
ShownStatuses == { "backlog", "in_progress", "human_review" }

\* the task of the list with this id
TaskOf(ts, id) == ts[CHOOSE i \in 1..Len(ts) : ts[i].id = id]

\* the useState initial values, for the task the panel is mounted on
PanelOn(id) ==
  [ shown |-> id, isStuck |-> FALSE, hasCheckedRunning |-> FALSE, checkedFor |-> Null,
    worktreeStatus |-> Null, worktreeDiff |-> Null, isLoadingWorktree |-> FALSE ]

\* the stuck-check effect calls checkTaskRunning(task.id)
CheckRequests(p, t) ==
  IF IsRunning(t) /\ ~p.hasCheckedRunning
    THEN { [ fn |-> "checkTaskRunning", taskId |-> t.id ] }
    ELSE {}

\* the worktree effect's body
RunWorktreeEffect(p, t) ==
  IF NeedsReview(t)
    THEN [ p EXCEPT !.isLoadingWorktree = TRUE ]
    ELSE [ p EXCEPT !.worktreeStatus = Null, !.worktreeDiff = Null ]

\* the worktree effect calls getWorktreeStatus(task.id) and getWorktreeDiff(task.id)
LoadRequests(t) ==
  IF NeedsReview(t) THEN { [ fn |-> "getWorktree", taskId |-> t.id ] } ELSE {}

\* another task of the list is selected: the panel is rendered with it, and
\* both effects run because task.id changed
ShowTask ==
  \E id \in { tasks[i].id : i \in 1..Len(tasks) } :
    /\ id # panel.shown
    /\ LET t == TaskOf(tasks, id)
           p == [ panel EXCEPT !.shown = id ]
       IN  /\ panel' = RunWorktreeEffect(AfterStuckEffect(p, t), t)
           /\ requests' = requests \cup CheckRequests(p, t) \cup LoadRequests(t)
           /\ seen' = [ op |-> "showTask",
                        wasRunning |-> IsRunning(TaskOf(tasks, panel.shown)) ]
    /\ selectedTaskId' = id
    /\ UNCHANGED << tasks, lastOp, pending, running, calls, workspace, events, logs, github >>

\* updateTaskStatus on a status event for a task of the list; for the shown
\* task, the effects whose isRunning or needsReview changed run again
ShownStatusChanged ==
  \E i \in 1..Len(tasks), status \in ShownStatuses :
    /\ tasks[i].status # status
    /\ tasks' = StoreUpdateTaskStatus(tasks, tasks[i].id, status)
    /\ LET before == tasks[i]
           after == [ tasks[i] EXCEPT !.status = status ]
           stuckRuns == tasks[i].id = panel.shown /\ IsRunning(before) # IsRunning(after)
           loadRuns == tasks[i].id = panel.shown /\ NeedsReview(before) # NeedsReview(after)
           p == IF stuckRuns THEN AfterStuckEffect(panel, after) ELSE panel
       IN  /\ panel' = IF loadRuns THEN RunWorktreeEffect(p, after) ELSE p
           /\ requests' = requests
                            \cup (IF stuckRuns THEN CheckRequests(panel, after) ELSE {})
                            \cup (IF loadRuns THEN LoadRequests(after) ELSE {})
    /\ lastOp' = Op("updateTaskStatus")
    /\ seen' = Step("statusEvent")
    /\ UNCHANGED << pending, running, calls, workspace, events, otherVars >>

\* checkTaskRunning answers: the then-callback, and the effect again for the
\* changed hasCheckedRunning
ShownCheckAnswered ==
  \E r \in requests, actuallyRunning \in BOOLEAN :
    /\ r.fn = "checkTaskRunning"
    /\ requests' = requests \ { r }
    /\ panel' = AfterStuckEffect([ CheckContinued(panel, actuallyRunning)
                                     EXCEPT !.checkedFor = r.taskId ],
                                 TaskOf(tasks, panel.shown))
    /\ seen' = Step("checkAnswered")
    /\ UNCHANGED << tasks, lastOp, pending, running, calls, workspace, events, otherVars >>

\* Promise.all of getWorktreeStatus and getWorktreeDiff settles: then, catch
\* and finally
ShownWorktreeAnswered ==
  \E r \in requests, status \in IpcOutcomes, diff \in IpcOutcomes :
    /\ r.fn = "getWorktree"
    /\ requests' = requests \ { r }
    /\ panel' = [ panel EXCEPT
                    !.worktreeStatus = IF status = "success" /\ diff # "throws"
                                         THEN r.taskId ELSE @,
                    !.worktreeDiff = IF diff = "success" /\ status # "throws"
                                       THEN r.taskId ELSE @,
                    !.isLoadingWorktree = FALSE ]
    /\ seen' = [ op |-> "worktreeAnswered", taskId |-> r.taskId,
                 loaded |-> status = "success" /\ diff = "success" ]
    /\ UNCHANGED << tasks, lastOp, pending, running, calls, workspace, events, otherVars >>

InitShown ==
  /\ \E a \in ShownStatuses, b \in ShownStatuses :
       tasks = << ListedTask(TheTaskId, TheSpecId, a), ListedTask(OtherTaskId, OtherSpecId, b) >>
  /\ panel = RunWorktreeEffect(PanelOn(TheTaskId), tasks[1])
  /\ requests = CheckRequests(PanelOn(TheTaskId), tasks[1]) \cup LoadRequests(tasks[1])
  /\ selectedTaskId = TheTaskId
  /\ lastOp = Op("init")
  /\ InitIpc
  /\ workspace = "absent"
  /\ events = << >>
  /\ seen = Step("init")
  /\ logs = NoLogs
  /\ github = NoGithub

NextShown ==
  \/ ShowTask
  \/ ShownStatusChanged
  \/ ShownCheckAnswered
  \/ ShownWorktreeAnswered

SpecShown == InitShown /\ [][NextShown]_vars

\* C33: a raised stuck flag comes from a liveness check made for the task
\* that is shown, and right after the panel went from one in_progress task to
\* another a check for the new task is under way.
C33_StuckFlagOfShownTask ==
  /\ panel.isStuck => panel.checkedFor = panel.shown
  /\ (seen.op = "showTask" /\ seen.wasRunning /\ IsRunning(TaskOf(tasks, panel.shown)))
       => [ fn |-> "checkTaskRunning", taskId |-> panel.shown ] \in requests

\* C34: a worktree status or diff the panel holds describes the task that is
\* shown, and that task is in human_review.
C34_WorktreeOfShownTask ==
  \A held \in { panel.worktreeStatus, panel.worktreeDiff } :
    held # Null => held = panel.shown /\ NeedsReview(TaskOf(tasks, panel.shown))

(***************************************************************************)
(* Whose logs the panel holds: the phase-log effect with every snapshot    *)
(* tagged with the spec id it describes                                    *)
(***************************************************************************)
\* the snapshots of a spec's logs: planning has not started or is active
SnapshotsOf(specId) ==
  { [ phases |-> d.phases, of |-> specId ] :
      d \in { x \in StatusSnapshots : x.phases["planning"].status \in { "pending", "active" } } }

\* getTaskLogs(selectedProject.id, specId) returns to the loadLogs that asked
\* for that spec id
SpecLogsLoaded ==
  /\ logs.mounted
  /\ \E load \in logs.loads :
     \E response \in LogResponses(SnapshotsOf(load)) :
       logs' = AfterLoadLogs([ logs EXCEPT !.loads = @ \ { load } ], response)
  /\ UNCHANGED << tasks, lastOp, pending, running, calls, panel, requests, workspace,
                  events, seen, selectedTaskId, github >>

\* the main process sends a snapshot of a spec's logs to the panel's listener
SpecLogsChanged ==
  /\ logs.mounted
  /\ logs.listeners # << >>
  /\ \E specId \in SpecIds :
     \E data \in SnapshotsOf(specId) :
       logs' = AfterLogsChanged(logs, logs.listeners[Len(logs.listeners)], specId, data)
  /\ UNCHANGED << tasks, lastOp, pending, running, calls, panel, requests, workspace,
                  events, seen, selectedTaskId, github >>

NextLogsOf ==
  \/ MountLogs
  \/ SwitchLogs
  \/ UnmountLogs
  \/ SpecLogsLoaded
  \/ SpecLogsChanged

SpecLogsOf == InitLogs /\ [][NextLogsOf]_vars

\* C35: the phase logs the panel holds and renders (no load is shown as under
\* way) are those of the spec id of the task that is shown.
C35_LogsOfShownSpec ==
  (logs.mounted /\ ~logs.isLoadingLogs /\ logs.phaseLogs # << >>)
    => logs.phaseLogs[1].of = logs.specId

\* C36: once the mergeWorktree or discardWorktree call of a merge or discard
\* attempt has settled, with a result or with a rejected promise, the
\* attempt's in-flight flag is cleared: the handler does nothing later, so a
\* flag left set then stays set.
C36_SettledAttemptClearsFlag ==
  /\ seen.op = "mergeWorktree" => ~panel.isMerging
  /\ seen.op = "discardWorktree" => ~panel.isDiscarding

(***************************************************************************)
(* loadTasks and createTask.  The control process persists the project's   *)
(* tasks (events holds their ids, in order) and answers getTasks with that *)
(* list and createTask with the task it has persisted; each call of the    *)
(* store is answered on its own promise, so the store functions continue   *)
(* in the order the answers arrive.                                        *)
(***************************************************************************)
\* the ids the control process gives to new tasks, in order
NewTaskIds == << TheTaskId, OtherTaskId, "t3" >>

\* the task the control process returns for an id
PersistedTask(id) ==
  ListedTask(id, IF id = TheTaskId THEN TheSpecId ELSE IF id = OtherTaskId THEN OtherSpecId ELSE "s3",
             "backlog")

\* a call of the store awaiting its answer: data is set once the control
\* process has handled it
StoreCall(fn) == [ fn |-> fn, handled |-> FALSE, data |-> << >> ]

\* setTasks(tasks): the list is replaced
SetTasks(ts, data) == data

\* addTask(task): [...state.tasks, task]
AddTaskTo(ts, task) == Append(ts, task)

\* loadTasks(projectId) up to its await
LoadTasksCall ==
  /\ \A r \in requests : r.fn # "loadTasks"
  /\ requests' = requests \cup { StoreCall("loadTasks") }
  /\ seen' = Step("loadTasksCall")
  /\ UNCHANGED << tasks, lastOp, pending, running, calls, panel, workspace, events, otherVars >>

\* createTask(projectId, title, description) up to its await
CreateTaskCall ==
  /\ \A r \in requests : r.fn # "createTask"
  /\ Len(events) < Len(NewTaskIds)
  /\ requests' = requests \cup { StoreCall("createTask") }
  /\ seen' = Step("createTaskCall")
  /\ UNCHANGED << tasks, lastOp, pending, running, calls, panel, workspace, events, otherVars >>

\* the control process answers getTasks with the tasks it has persisted
GetTasksHandled ==
  \E r \in requests :
    /\ r.fn = "loadTasks" /\ ~r.handled
    /\ requests' = (requests \ { r })
                     \cup { [ r EXCEPT !.handled = TRUE,
                                       !.data = [ i \in 1..Len(events) |-> PersistedTask(events[i]) ] ] }
    /\ seen' = Step("getTasks")
    /\ UNCHANGED << tasks, lastOp, pending, running, calls, panel, workspace, events, otherVars >>

\* the control process persists a new task and answers createTask with it
CreateTaskHandled ==
  \E r \in requests :
    /\ r.fn = "createTask" /\ ~r.handled
    /\ Len(events) < Len(NewTaskIds)
    /\ LET id == NewTaskIds[Len(events) + 1]
       IN  /\ events' = Append(events, id)
           /\ requests' = (requests \ { r })
                            \cup { [ r EXCEPT !.handled = TRUE, !.data = << PersistedTask(id) >> ] }
    /\ seen' = Step("createTask")
    /\ UNCHANGED << tasks, lastOp, pending, running, calls, panel, workspace, otherVars >>

\* loadTasks from the answer on: setTasks(result.data) on success
LoadTasksReturn ==
  \E r \in requests, outcome \in IpcOutcomes :
    /\ r.fn = "loadTasks" /\ r.handled
    /\ requests' = requests \ { r }
    /\ tasks' = IF outcome = "success" THEN SetTasks(tasks, r.data) ELSE tasks
    /\ lastOp' = Op("setTasks")
    /\ seen' = [ op |-> "loadTasks", outcome |-> outcome ]
    /\ UNCHANGED << pending, running, calls, panel, workspace, events, otherVars >>

\* createTask from the answer on: addTask(result.data) on success
CreateTaskReturn ==
  \E r \in requests, outcome \in IpcOutcomes :
    /\ r.fn = "createTask" /\ r.handled
    /\ requests' = requests \ { r }
    /\ tasks' = IF outcome = "success" THEN AddTaskTo(tasks, r.data[1]) ELSE tasks
    /\ lastOp' = Op("addTask")
    /\ seen' = [ op |-> "createTask", outcome |-> outcome ]
    /\ UNCHANGED << pending, running, calls, panel, workspace, events, otherVars >>

InitLoad ==
  /\ tasks = << >>
  /\ events \in { << >>, << TheTaskId >> }
  /\ lastOp = Op("init")
  /\ InitIpc
  /\ panel = NoPanel
  /\ requests = {}
  /\ workspace = "absent"
  /\ seen = Step("init")
  /\ InitOther

NextLoad ==
  \/ LoadTasksCall
  \/ CreateTaskCall
  \/ GetTasksHandled
  \/ CreateTaskHandled
  \/ LoadTasksReturn
  \/ CreateTaskReturn

SpecLoad == InitLoad /\ [][NextLoad]_vars

\* C37: no two tasks of the store's list have the same id.
C37_TaskIdsUnique ==
  \A i \in 1..Len(tasks), j \in 1..Len(tasks) : tasks[i].id = tasks[j].id => i = j

(***************************************************************************)
(* The roadmap store: reorderFeatures.  events holds state.roadmap, << >>  *)
(* for null and << features >> otherwise; a feature is its id and phaseId. *)
(***************************************************************************)
MaxFeatures == 3

PhaseIds == { "ph1", "ph2" }

\* the ids a featureIds argument is made of: those of features, and 0, the id
\* of no feature
FeatureIdInputs == 0..MaxFeatures

SeqsUpTo(S, n) == UNION { [ 1..k -> S ] : k \in 0..n }

UniqueIds(fs) == \A i \in 1..Len(fs), j \in 1..Len(fs) : fs[i].id = fs[j].id => i = j

\* the feature lists of a roadmap: every feature has its own id
FeatureLists ==
  { fs \in SeqsUpTo([ id : 1..MaxFeatures, phaseId : PhaseIds ], MaxFeatures) : UniqueIds(fs) }

\* state.roadmap.features.find(f => f.id === id), as a sequence: empty for undefined
FindFeature(fs, id) ==
  IF \E i \in 1..Len(fs) : fs[i].id = id
    THEN << fs[CHOOSE i \in 1..Len(fs) : fs[i].id = id /\ \A j \in 1..(i - 1) : fs[j].id # id] >>
    ELSE << >>

\* featureIds.map(id => features.find(...)).filter(f => f !== undefined)
RECURSIVE PhaseFeatures(_, _)
PhaseFeatures(fs, featureIds) ==
  IF featureIds = << >> THEN << >>
  ELSE FindFeature(fs, Head(featureIds)) \o PhaseFeatures(fs, Tail(featureIds))

\* state.roadmap.features.filter(f => f.phaseId !== phaseId)
OtherFeatures(fs, phaseId) == SelectSeq(fs, LAMBDA f : f.phaseId # phaseId)

\* the list left as it was
UpdatedFeatures_Unordered(fs, phaseId, featureIds) == fs

\* const updatedFeatures = [...otherFeatures, ...phaseFeatures]
UpdatedFeatures(fs, phaseId, featureIds) ==
  OtherFeatures(fs, phaseId) \o PhaseFeatures(fs, featureIds)

\* reorderFeatures(phaseId, featureIds), called once on the roadmap that was
\* set: nothing without a roadmap
ReorderFeatures ==
  /\ seen.op = "init"
  /\ \E phaseId \in PhaseIds, featureIds \in SeqsUpTo(FeatureIdInputs, MaxFeatures) :
       /\ events' = IF events = << >> THEN events
                    ELSE << UpdatedFeatures(events[1], phaseId, featureIds) >>
       /\ seen' = [ op |-> "reorderFeatures", phaseId |-> phaseId,
                    featureIds |-> featureIds, before |-> events ]
  /\ UNCHANGED << tasks, lastOp, pending, running, calls, panel, requests, workspace, otherVars >>

InitRoadmap ==
  /\ events \in { << >> } \cup { << fs >> : fs \in FeatureLists }
  /\ tasks = << >>
  /\ lastOp = Op("init")
  /\ InitIpc
  /\ panel = NoPanel
  /\ requests = {}
  /\ workspace = "absent"
  /\ seen = Step("init")
  /\ InitOther

NextRoadmap == ReorderFeatures

SpecRoadmap == InitRoadmap /\ [][NextRoadmap]_vars

\* how many times the feature is in the list
CountOf(fs, f) == Cardinality({ i \in 1..Len(fs) : fs[i] = f })

\* the two lists hold the same features, each as many times
SameFeatures(fs, gs) ==
  \A f \in { fs[i] : i \in 1..Len(fs) } \cup { gs[i] : i \in 1..Len(gs) } :
    CountOf(fs, f) = CountOf(gs, f)

\* the ids of the list's features of the phase, in order
PhaseIdsIn(fs, phaseId) ==
  LET own == SelectSeq(fs, LAMBDA f : f.phaseId = phaseId)
  IN  [ i \in 1..Len(own) |-> own[i].id ]

\* featureIds without the ids of no feature of the list
KnownIds(fs, featureIds) ==
  SelectSeq(featureIds, LAMBDA id : \E i \in 1..Len(fs) : fs[i].id = id)

\* the known ids of featureIds are the ids of the phase's features, each once
ListsThePhase(fs, phaseId, featureIds) ==
  LET known == KnownIds(fs, featureIds)
      own == PhaseIdsIn(fs, phaseId)
  IN  /\ Len(known) = Len(own)
      /\ \A i \in 1..Len(own) : \E j \in 1..Len(known) : known[j] = own[i]

Reordered == seen.op = "reorderFeatures" /\ seen.before # << >>

====
